---- MODULE Spec2Model ----
(***************************************************************************)
(* Opportunity detection, risk gate and execution coordinator of the       *)
(* arbitrage bot (server/services/arbitrage.ts, server/services/           *)
(* execution.ts, server/storage.ts).                                       *)
(*                                                                         *)
(* Units.  Money is in whole USD.  Percentages are integers in units of    *)
(* 1/10000 of a percent (PCT units per percent).  Risk factors are in      *)
(* tenths.  Asset amounts are in thousandths of one asset unit.  Floating  *)
(* point divisions of the source are integer divisions here.  Time is in   *)
(* milliseconds and advances in steps of one day.                          *)
(*                                                                         *)
(* An async function is cut at the awaits on which real I/O (a venue       *)
(* adapter) or a macrotask boundary can interleave other work; the code    *)
(* between two such awaits is one action.                                  *)
(***************************************************************************)
EXTENDS Integers, Sequences, FiniteSets, TLC

VARIABLES
  opportunities,      \* MemStorage.opportunities: id -> Opportunity (id = index)
  opportunityId,      \* MemStorage.opportunityId: the next id to assign
  exchangeActive,     \* MemStorage.exchanges: name -> isActive
  liquidityPools,     \* MemStorage.liquidityPools, in insertion order
  crossChainBridges,  \* MemStorage.crossChainBridges, in insertion order
  stats,              \* MemStorage.stats.get('24h'), the fields the scan writes
  scannerInterval,    \* arbitrage.ts scannerInterval: TRUE iff it holds a timer handle
  armedTimers,        \* the timers of setInterval that the runtime has armed
  isScanning,         \* arbitrage.ts isScanning
  consecutiveLosses,  \* arbitrage.ts consecutiveLosses
  dailyProfitLoss,    \* arbitrage.ts dailyProfitLoss
  lastResetTime,      \* arbitrage.ts lastResetTime
  now,                \* Date.now()
  scanPc,             \* per invocation of performArbitrageScan: where it is suspended
  scanConnected,      \* per invocation: the local connectedExchanges
  execPc,             \* per call of executeArbitrage: where it is suspended
  execId,             \* per call: the opportunityId argument
  execSize,           \* per call: positionSize returned by calculatePositionSize
  execBalance,        \* per call: the balance a successful query returned, else -1
  execCalls,          \* per call: history of the legs submitted to venue adapters
  execTxs,            \* per call: transactionHashes collected so far
  execResult,         \* per call: the ExecutionResult returned
  execBridge,         \* per call: where the bridge transfer of its bridge leg is
  tickers,            \* the call of detectSimpleArbitrage under study: what it read and stored
  listed              \* the last call of getOpportunities: its arguments and its rows

storeVars == <<opportunities, opportunityId, exchangeActive, liquidityPools,
               crossChainBridges, stats>>
riskVars  == <<consecutiveLosses, dailyProfitLoss, lastResetTime>>
scanVars  == <<scannerInterval, armedTimers, isScanning, scanPc, scanConnected>>
execVars  == <<execPc, execId, execSize, execBalance, execCalls, execTxs, execResult, execBridge>>
callVars  == <<tickers, listed>>
vars      == <<storeVars, riskVars, scanVars, execVars, callVars, now>>

(***************************************************************************)
(* Program constants                                                       *)
(***************************************************************************)
MAX_POSITION_SIZE == 10000
MIN_POSITION_SIZE == 100
MAX_DAILY_LOSS == 5000
CIRCUIT_BREAKER_THRESHOLD == 3
DAY == 24 * 60 * 60 * 1000
PCT == 100 * 100          \* model units per one percent

(***************************************************************************)
(* Bounds of the model                                                     *)
(***************************************************************************)
MaxOpps == 4              \* capacity of the store
MaxStocked == 1           \* opportunities in the store the coordinator runs against
MaxPosts == 1             \* opportunities added through POST /api/opportunities
MaxClockSteps == 1        \* steps the clock may advance
ClockStep == DAY + 1      \* one step of the clock

Venues == <<"Binance", "Coinbase">>
VenueSet == {Venues[i] : i \in DOMAIN Venues}
\* a third centralized venue, for the detector applied to drawn tickers
TickerVenues == Venues \o <<"Kraken">>
TickerVenueSet == {TickerVenues[i] : i \in DOMAIN TickerVenues}
\* rows of defaultDEXs
DexVenues == <<"Uniswap", "SushiSwap", "QuickSwap">>
DexVenueSet == {DexVenues[i] : i \in DOMAIN DexVenues}
\* the rows in the order getAllExchanges lists them
ExchangeRows == TickerVenues \o DexVenues
VenueIndex(v) == CHOOSE i \in DOMAIN ExchangeRows : ExchangeRows[i] = v
ScanSlots == {1, 2}
\* the calls of executeArbitrage in flight at once
ExecSlots == {1, 2}

Min(a, b) == IF a < b THEN a ELSE b
Max(a, b) == IF a > b THEN a ELSE b
Abs(a) == IF a < 0 THEN 0 - a ELSE a

(***************************************************************************)
(* Opportunity records.  `origin` is a history field: who called           *)
(* addOpportunity.  A field the source leaves unset is "undefined".        *)
(***************************************************************************)
Route(sep, parts) == [sep |-> sep, parts |-> parts]

NewOpportunity(origin, strategy, pair, buyEx, sellEx, buyPrice, sellPrice, profit, volume, risk, route, buyType, sellType, buyNet, sellNet, bridge) ==
  [origin |-> origin, strategy |-> strategy, assetPair |-> pair,
   buyExchange |-> buyEx, sellExchange |-> sellEx,
   buyPrice |-> buyPrice, sellPrice |-> sellPrice,
   profitPercentage |-> profit, volume |-> volume, risk |-> risk,
   route |-> route, isActive |-> TRUE,
   buyExchangeType |-> buyType, sellExchangeType |-> sellType,
   buyNetwork |-> buyNet, sellNetwork |-> sellNet,
   crossChainBridge |-> bridge]

\* variant: the new row is stored under the id assigned last
replaceLastOpportunity(store, opp) ==
  IF store = <<>> THEN <<opp>> ELSE [store EXCEPT ![Len(store)] = opp]

\* MemStorage.addOpportunity: id = opportunityId++, then map.set(id, ...)
addOpportunity(store, opp) == Append(store, opp)

\* addOpportunity for each of the rows, in order
RECURSIVE AddAll(_, _)
AddAll(store, added) ==
  IF added = <<>> THEN store
  ELSE AddAll(addOpportunity(store, Head(added)), Tail(added))

\* MemStorage.getOpportunityById
getOpportunityById(store, id) ==
  IF id \in DOMAIN store THEN store[id] ELSE "undefined"

\* variant: the entry is left as it is
keepOpportunity(store, id) == store

\* variant: the flag is flipped instead of cleared
toggleOpportunity(store, id) ==
  [store EXCEPT ![id] = [store[id] EXCEPT !.isActive = ~store[id].isActive]]

\* MemStorage.deactivateOpportunity: a copy with isActive false replaces the entry
deactivateOpportunity(store, id) ==
  [store EXCEPT ![id] = [store[id] EXCEPT !.isActive = FALSE]]

\* MemStorage.getOpportunities() with the default arguments, as a set of ids
ActiveIds(store) == {i \in DOMAIN store : store[i].isActive}

\* String.prototype.toLowerCase, on the strategy names and the bridge names
\* of the model
LowerCase(str) ==
  CASE str = "Simple" -> "simple"
    [] str = "ALL" -> "all"
    [] str = "Axelar" -> "axelar"
    [] str = "LayerZero" -> "layerzero"
    [] str = "Polygon Bridge" -> "polygon bridge"
    [] str = "Arbitrum Bridge" -> "arbitrum bridge"
    [] str = "Avalanche Bridge" -> "avalanche bridge"
    [] str = "Binance Bridge" -> "binance bridge"
    [] str = "Hop Bridge" -> "hop bridge"
    [] str = "Plasma Exit" -> "plasma exit"
    [] OTHER -> str

\* variant: the rows keep the order of the store
RECURSIVE InsertLast(_, _, _)
InsertLast(store, sorted, id) == Append(sorted, id)

\* one step of the stable sort by (b.profitPercentage - a.profitPercentage)
RECURSIVE InsertByProfit(_, _, _)
InsertByProfit(store, sorted, id) ==
  IF sorted = <<>> THEN <<id>>
  ELSE IF store[id].profitPercentage > store[Head(sorted)].profitPercentage
    THEN <<id>> \o sorted
    ELSE <<Head(sorted)>> \o InsertByProfit(store, Tail(sorted), id)

RECURSIVE SortByProfit(_, _)
SortByProfit(store, ids) ==
  IF ids = <<>> THEN <<>>
  ELSE InsertByProfit(store, SortByProfit(store, SubSeq(ids, 1, Len(ids) - 1)), ids[Len(ids)])

\* MemStorage.getOpportunities(minProfit, strategy): the ids of the rows it
\* returns, in the order it returns them
getOpportunities(store, minProfit, strategy) ==
  LET all == [i \in 1..Len(store) |-> i]
      active == SelectSeq(all, LAMBDA i : store[i].isActive)
      profitable == IF minProfit > 0
                      THEN SelectSeq(active, LAMBDA i : store[i].profitPercentage >= minProfit)
                      ELSE active
      matching == IF strategy # "all"
                    THEN SelectSeq(profitable,
                           LAMBDA i : LowerCase(store[i].strategy) = LowerCase(strategy))
                    ELSE profitable
  IN SortByProfit(store, matching)

(***************************************************************************)
(* Reference data of the scan (client/src/lib/exchanges.ts, the seeds of   *)
(* MemStorage, the inputs the simulated venues can produce)                *)
(***************************************************************************)
\* COMMON_PAIRS, the pairs this model scans
ScannedPairs == <<"BTC/USDT">>

\* PAIR_RISK_LEVELS[pair] || RiskLevelEnum.MEDIUM
PairRiskLevel(pair) ==
  CASE pair \in {"BTC/USDT", "ETH/USDT", "BNB/USDT"} -> "low"
    [] pair = "DOGE/USDT" -> "high"
    [] OTHER -> "medium"

\* Exchange rows have exchangeType but no property called `type`
ExchangeTypeProp(v) == "undefined"
\* the exchangeType of a row
ExchangeTypeField(v) == IF v \in DexVenueSet THEN "dex" ELSE "cex"

\* tickers a venue can report (simulateTickerData: bid < ask on one venue)
Quotes == {[bid |-> 99, ask |-> 100], [bid |-> 100, ask |-> 101], [bid |-> 101, ask |-> 102]}
SimpleVolumes == {5000}
\* the tickers drawn for a call of detectSimpleArbitrage on its own: a venue
\* further from the base price beside those of Quotes
TickerQuotes == Quotes \cup {[bid |-> 103, ask |-> 104]}

\* triangularPairs of detectTriangularArbitrage: of its three triangles the
\* one with the lowest profit
triangularPairs ==
  << [pair |-> "LINK/USDT", steps |-> <<"LINK/USDT", "LINK/BTC", "BTC/USDT">>,
      profit |-> 9400, risk |-> "medium"] >>
\* Math.random() * 0.5 - 0.25, the low end of the range
TriVariances == {0 - 2500}

\* zScore = -2 + Math.random() * 4, in tenths
ZScores == {0 - 20, 5, 6}
\* positionSize = 1000 + Math.random() * 9000, the low end
StatVolumes == {1000}

\* defaultLiquidityPools; token amounts in thousands, fee in PCT units
defaultLiquidityPools ==
  << [exchange |-> "Uniswap", network |-> "ethereum", pair |-> "ETH/USDT",
      liquidityUSD |-> 280000000, token0Amount |-> 150, token1Amount |-> 240000, fee |-> 30],
     [exchange |-> "Uniswap", network |-> "ethereum", pair |-> "ETH/USDC",
      liquidityUSD |-> 320000000, token0Amount |-> 170, token1Amount |-> 272000, fee |-> 30],
     [exchange |-> "PancakeSwap", network |-> "binance", pair |-> "BNB/USDT",
      liquidityUSD |-> 160000000, token0Amount |-> 600, token1Amount |-> 160000, fee |-> 25],
     [exchange |-> "QuickSwap", network |-> "polygon", pair |-> "MATIC/USDC",
      liquidityUSD |-> 85000000, token0Amount |-> 120000, token1Amount |-> 85000, fee |-> 30],
     [exchange |-> "Trader Joe", network |-> "avalanche", pair |-> "AVAX/USDC",
      liquidityUSD |-> 65000000, token0Amount |-> 3000, token1Amount |-> 65000, fee |-> 30] >>

\* defaultBridges
defaultBridges ==
  << [name |-> "Polygon Bridge", sourceNetwork |-> "ethereum", destinationNetwork |-> "polygon"],
     [name |-> "Arbitrum Bridge", sourceNetwork |-> "ethereum", destinationNetwork |-> "arbitrum"],
     [name |-> "Avalanche Bridge", sourceNetwork |-> "ethereum", destinationNetwork |-> "avalanche"],
     [name |-> "Binance Bridge", sourceNetwork |-> "ethereum", destinationNetwork |-> "binance"] >>

\* defaultProviders; fee in PCT units
flashLoanProviders ==
  << [name |-> "Aave", network |-> "ethereum", fee |-> 900, maxLoanAmount |-> 30000000,
      supportedTokens |-> <<"ETH", "USDC">>] >>
\* baseProfit = 0.5 + Math.random() * 2, the two ends of the range
FlashBaseProfits == {5000, 24999}

(***************************************************************************)
(* Risk gate (arbitrage.ts)                                                *)
(***************************************************************************)
\* variant: the gate without its daily-loss test
checkCircuitBreakersLossesOnly ==
  consecutiveLosses >= CIRCUIT_BREAKER_THRESHOLD

checkCircuitBreakers ==
  \/ consecutiveLosses >= CIRCUIT_BREAKER_THRESHOLD
  \/ dailyProfitLoss < 0 - MAX_DAILY_LOSS

\* the test of performArbitrageScan that guards resetDailyCounters
DailyResetDue == now - lastResetTime > DAY

\* the test on entry of performArbitrageScan
\* variant: the entry test never sees a running cycle
AlreadyScanningNever == FALSE

AlreadyScanning == isScanning

(***************************************************************************)
(* Detectors (arbitrage.ts), as pure functions of the venue snapshots      *)
(***************************************************************************)
\* profitPercentage = ((sellPrice - buyPrice) / buyPrice) * 100
SpreadPct(buyPrice, sellPrice) == ((sellPrice - buyPrice) * 100 * PCT) \div buyPrice

\* the test every detector applies before it stores: `if (profitPercentage <= 0) return`
\* variant: the detector stores whatever spread it finds
NotProfitableNever(profit) == FALSE

NotProfitable(profit) == profit <= 0

\* variant: the first ticker is taken as it comes, unsorted
FirstListed(names, quote) ==
  CHOOSE v \in names : \A w \in names : VenueIndex(v) <= VenueIndex(w)

\* [...tickers].sort((a, b) => a.ask - b.ask)[0]: the first venue, in listing
\* order, among those with the lowest ask (Array.prototype.sort is stable)
BestBuy(names, quote) ==
  CHOOSE v \in names :
    /\ \A w \in names : quote[v].ask <= quote[w].ask
    /\ \A w \in names : quote[w].ask = quote[v].ask => VenueIndex(v) <= VenueIndex(w)

\* [...tickers].sort((a, b) => b.bid - a.bid)[0]
BestSell(names, quote) ==
  CHOOSE v \in names :
    /\ \A w \in names : quote[v].bid >= quote[w].bid
    /\ \A w \in names : quote[w].bid = quote[v].bid => VenueIndex(v) <= VenueIndex(w)

\* risk tier of detectSimpleArbitrage
SimpleRisk(pair, profit) ==
  LET risk == PairRiskLevel(pair) IN
  IF profit > 3 * PCT /\ risk = "low" THEN "medium"
  ELSE IF profit > 5 * PCT THEN "high"
  ELSE risk

\* detectSimpleArbitrage(pair, exchangeNames): the opportunities it stores
detectSimpleArbitrage(pair, names, quote, volume) ==
  IF Cardinality(names) < 2 THEN <<>>
  ELSE LET bestBuy == BestBuy(names, quote)
           bestSell == BestSell(names, quote)
           buyPrice == quote[bestBuy].ask
           sellPrice == quote[bestSell].bid
           profit == SpreadPct(buyPrice, sellPrice)
       IN IF bestBuy = bestSell THEN <<>>
          ELSE IF NotProfitable(profit) THEN <<>>
          ELSE << NewOpportunity("simple", "simple", pair, bestBuy, bestSell,
                     buyPrice, sellPrice, profit, volume, SimpleRisk(pair, profit),
                     Route("arrow", <<bestBuy, bestSell>>),
                     "undefined", "undefined", "undefined", "undefined", "undefined") >>

\* detectTriangularArbitrage: one opportunity per triangle, always stored
TriangularOpportunity(triangle, variance, volume) ==
  LET profit == triangle.profit + variance IN
  NewOpportunity("triangular", "triangular", triangle.pair, "Binance", "Binance",
     100, 100 + (100 * profit) \div (100 * PCT), profit, volume, triangle.risk,
     Route("arrow", triangle.steps),
     "undefined", "undefined", "undefined", "undefined", "undefined")

\* detectStatisticalArbitrage, one pair: z in tenths; profitPotential = |z| * 0.5
detectStatisticalArbitrage(pair, shouldCreate, active, exchange1, exchange2, z, volume) ==
  LET profitPotential == (Abs(z) * PCT) \div 20
      isLong == z < 0
      basePrice == 1000
      priceDifference == (basePrice * profitPotential) \div (100 * PCT)
      targetPrice == IF z > 0 THEN basePrice - priceDifference ELSE basePrice + priceDifference
      risk == IF Abs(z) < 10 THEN "high" ELSE "medium"
  IN IF ~shouldCreate THEN <<>>
     ELSE IF Cardinality(active) < 2 THEN <<>>
     ELSE IF profitPotential < (3 * PCT) \div 10 THEN <<>>
     ELSE << NewOpportunity("statistical", "statistical", pair,
                IF isLong THEN exchange1 ELSE exchange2,
                IF isLong THEN exchange2 ELSE exchange1,
                IF isLong THEN basePrice ELSE targetPrice,
                IF isLong THEN targetPrice ELSE basePrice,
                profitPotential, volume, risk,
                Route("none", << IF isLong THEN "Long" ELSE "Short", pair >>),
                ExchangeTypeProp(exchange1), ExchangeTypeProp(exchange2),
                "undefined", "undefined", "undefined") >>

\* impliedPrice = token0Amount / token1Amount, times 10^6
ImpliedPrice(pool) == (pool.token0Amount * 1000000) \div pool.token1Amount

\* variant: a sort that is not stable, a pool goes in before the pools of its price
RECURSIVE InsertBeforeEqual(_, _)
InsertBeforeEqual(sorted, pool) ==
  IF sorted = <<>> THEN <<pool>>
  ELSE IF ImpliedPrice(pool) <= ImpliedPrice(Head(sorted)) THEN <<pool>> \o sorted
  ELSE <<Head(sorted)>> \o InsertBeforeEqual(Tail(sorted), pool)

RECURSIVE InsertByPrice(_, _)
InsertByPrice(sorted, pool) ==
  IF sorted = <<>> THEN <<pool>>
  ELSE IF ImpliedPrice(pool) < ImpliedPrice(Head(sorted)) THEN <<pool>> \o sorted
  ELSE <<Head(sorted)>> \o InsertByPrice(Tail(sorted), pool)

\* [...pricesWithExchanges].sort((a, b) => a.price - b.price), a stable sort
RECURSIVE SortByPrice(_)
SortByPrice(pools) ==
  IF pools = <<>> THEN <<>>
  ELSE InsertByPrice(SortByPrice(SubSeq(pools, 1, Len(pools) - 1)), pools[Len(pools)])

\* variant: the record added last is taken
LastBridge(bridges, source, destination) ==
  LET matching == SelectSeq(bridges,
                    LAMBDA b : b.sourceNetwork = source /\ b.destinationNetwork = destination)
  IN IF Len(matching) > 0 THEN matching[Len(matching)].name ELSE ""

\* storage.getCrossChainBridges(source, destination)[0].name, '' when there is none
FirstBridge(bridges, source, destination) ==
  LET matching == SelectSeq(bridges,
                    LAMBDA b : b.sourceNetwork = source /\ b.destinationNetwork = destination)
  IN IF Len(matching) > 0 THEN matching[1].name ELSE ""

\* body of the inner loop of detectCrossDexArbitrage for one (buyDex, sellDex)
CrossDexOpportunity(bridges, pair, buyDex, sellDex) ==
  LET profit == SpreadPct(ImpliedPrice(buyDex), ImpliedPrice(sellDex)) - (buyDex.fee + sellDex.fee)
      isCrossNetwork == buyDex.network # sellDex.network
      maxPositionSize == Min(Min((buyDex.liquidityUSD \div 100) * 5,
                                 (sellDex.liquidityUSD \div 100) * 5), MAX_POSITION_SIZE)
  IN IF buyDex.exchange = sellDex.exchange /\ buyDex.network = sellDex.network THEN <<>>
     ELSE IF NotProfitable(profit) THEN <<>>
     ELSE << NewOpportunity("cross-dex", "cross-dex", pair, buyDex.exchange, sellDex.exchange,
                ImpliedPrice(buyDex), ImpliedPrice(sellDex), profit, maxPositionSize,
                IF isCrossNetwork THEN "high" ELSE "medium",
                Route("arrow", <<buyDex.exchange, sellDex.exchange>>),
                "dex", "dex", buyDex.network, sellDex.network,
                IF isCrossNetwork THEN FirstBridge(bridges, buyDex.network, sellDex.network)
                ELSE "undefined") >>

RECURSIVE CrossDexOfSorted(_, _, _, _)
CrossDexOfSorted(bridges, pair, sorted, i) ==
  IF i >= Len(sorted) THEN <<>>
  ELSE CrossDexOpportunity(bridges, pair, sorted[i], sorted[Len(sorted)])
       \o CrossDexOfSorted(bridges, pair, sorted, i + 1)

RECURSIVE CrossDexOfPairs(_, _, _)
CrossDexOfPairs(bridges, pools, k) ==
  IF k > Len(pools) THEN <<>>
  ELSE LET pair == pools[k].pair
           first == \A j \in 1..(k - 1) : pools[j].pair # pair
           group == SelectSeq(pools, LAMBDA p : p.pair = pair)
       IN (IF first /\ Len(group) >= 2
           THEN CrossDexOfSorted(bridges, pair, SortByPrice(group), 1) ELSE <<>>)
          \o CrossDexOfPairs(bridges, pools, k + 1)

\* detectCrossDexArbitrage: the opportunities it stores
detectCrossDexArbitrage(dexExchanges, pools, bridges) ==
  IF Cardinality(dexExchanges) < 2 THEN <<>>
  ELSE IF Len(pools) < 2 THEN <<>>
  ELSE CrossDexOfPairs(bridges, pools, 1)

\* detectFlashLoanArbitrage, one provider and one token: the opportunities it stores
detectFlashLoanArbitrage(providers, dexExchanges, dex1, dex2, baseProfit) ==
  IF Len(providers) = 0 THEN <<>>
  ELSE IF Cardinality(dexExchanges) < 2 THEN <<>>
  ELSE LET provider == providers[1]
           token == provider.supportedTokens[1]
           profit == baseProfit - provider.fee
           loanSize == Min(provider.maxLoanAmount \div 2, 1000000)
       IN IF NotProfitable(profit) THEN <<>>
          ELSE << NewOpportunity("flash-loan", "flash-loan", token, dex1, dex2,
                     1000, 1000, profit, loanSize, "high",
                     Route("arrow", <<provider.name, dex1, dex2, provider.name>>),
                     "dex", "dex", provider.network, provider.network, "undefined") >>

\* updateArbitrageStats: the row it writes; nothing is written when no opportunity is active
CountStrategy(store, strategy) ==
  Cardinality({i \in ActiveIds(store) : store[i].strategy = strategy})

\* variant: the cycle ends without the recomputation
updateArbitrageStatsSkipped(store, old) == old

updateArbitrageStats(store, old) ==
  IF Cardinality(ActiveIds(store)) = 0 THEN old
  ELSE [totalOpportunities |-> Cardinality(ActiveIds(store)),
        simpleArbitrageCount |-> CountStrategy(store, "simple"),
        triangularArbitrageCount |-> CountStrategy(store, "triangular"),
        crossDexArbitrageCount |-> CountStrategy(store, "cross-dex"),
        flashLoanArbitrageCount |-> CountStrategy(store, "flash-loan")]

(***************************************************************************)
(* Scan scheduler (arbitrage.ts)                                           *)
(***************************************************************************)
\* the most opportunities one cycle stores under these reference data
OppsPerCycle == 2 * Len(ScannedPairs) + Len(triangularPairs)

activeExchanges == {v \in DOMAIN exchangeActive : exchangeActive[v]}
\* exchanges.filter(e => e.isActive && e.type === ExchangeTypeEnum.DEX)
DexAmong(active) == {v \in active : ExchangeTypeProp(v) = "dex"}

Store(added) ==
  /\ Len(opportunities) + Len(added) <= MaxOpps
  /\ opportunities' = AddAll(opportunities, added)
  /\ opportunityId' = opportunityId + Len(added)

\* performArbitrageScan up to its first await
performArbitrageScan(s) ==
  /\ scanPc[s] = "idle"
  /\ \A t \in ScanSlots : scanPc[t] = "idle" => s <= t
  /\ IF AlreadyScanning
       THEN /\ scanPc' = [scanPc EXCEPT ![s] = "skipped"]
            /\ UNCHANGED <<isScanning, riskVars>>
       ELSE IF checkCircuitBreakers
         THEN /\ isScanning' = FALSE
              /\ scanPc' = [scanPc EXCEPT ![s] = "rejected"]
              /\ UNCHANGED riskVars
         ELSE /\ Len(opportunities) + OppsPerCycle <= MaxOpps
              /\ isScanning' = TRUE
              /\ scanPc' = [scanPc EXCEPT ![s] = "exchanges"]
              /\ IF DailyResetDue
                   THEN /\ dailyProfitLoss' = 0
                        /\ lastResetTime' = now
                        /\ UNCHANGED consecutiveLosses
                   ELSE UNCHANGED riskVars
  /\ UNCHANGED <<storeVars, scanConnected, execVars, callVars, now>>

\* variant: the previous timer is left armed
clearIntervalNever(handle, armed) == armed

\* if (scannerInterval) clearInterval(scannerInterval): the timer the handle
\* names is disarmed
clearInterval(handle, armed) == IF handle THEN armed - 1 ELSE armed

\* startArbitrageScanner: clear a previous timer, scan at once, arm the timer
startArbitrageScanner ==
  /\ \E s \in ScanSlots : performArbitrageScan(s)
  /\ scannerInterval' = TRUE
  /\ armedTimers' = clearInterval(scannerInterval, armedTimers) + 1

\* the callback of setInterval(performArbitrageScan, SCAN_INTERVAL): the
\* runtime calls it for a timer that is armed
TimerTick ==
  /\ armedTimers > 0
  /\ \E s \in ScanSlots : performArbitrageScan(s)
  /\ UNCHANGED <<scannerInterval, armedTimers>>

stopArbitrageScanner ==
  /\ scannerInterval
  /\ scannerInterval' = FALSE
  /\ armedTimers' = clearInterval(scannerInterval, armedTimers)
  /\ UNCHANGED <<storeVars, riskVars, isScanning, scanPc, scanConnected, execVars, callVars, now>>

\* getAllExchanges, and the return when fewer than two are active
ScanExchanges(s) ==
  /\ scanPc[s] = "exchanges"
  /\ IF Cardinality(activeExchanges) < 2
       THEN /\ isScanning' = FALSE
            /\ scanPc' = [scanPc EXCEPT ![s] = "idle"]
       ELSE /\ scanPc' = [scanPc EXCEPT ![s] = "connect"]
            /\ UNCHANGED isScanning
  /\ UNCHANGED <<storeVars, riskVars, scannerInterval, armedTimers, scanConnected, execVars, callVars, now>>

\* an invocation that returned (tick skipped, cycle rejected, error caught) is over
ScanReturn(s) ==
  /\ scanPc[s] \in {"skipped", "rejected", "raised"}
  /\ scanPc' = [scanPc EXCEPT ![s] = "idle"]
  /\ UNCHANGED <<storeVars, riskVars, scannerInterval, armedTimers, isScanning, scanConnected,
                 execVars, callVars, now>>

\* updateGasPrices, connectToExchanges and the status refresh: any of the
\* active venues may connect
ScanConnect(s) ==
  /\ scanPc[s] = "connect"
  /\ scanPc' = [scanPc EXCEPT ![s] = "detect"]
  /\ \E c \in SUBSET activeExchanges : scanConnected' = [scanConnected EXCEPT ![s] = c]
  /\ UNCHANGED <<storeVars, riskVars, scannerInterval, armedTimers, isScanning, execVars, callVars, now>>

\* what the five detectors of one cycle store, in the order of the cycle, for
\* every draw of the tickers and of Math.random()
CycleAdds(connected, active, pools, bridges) ==
  { detectSimpleArbitrage(ScannedPairs[1], connected, quote, volume)
      \o <<TriangularOpportunity(triangularPairs[1], variance, volume)>>
      \o detectCrossDexArbitrage(DexAmong(active), pools, bridges)
      \o detectFlashLoanArbitrage(flashLoanProviders, DexAmong(active),
                                  pick[1], pick[2], baseProfit)
      \o detectStatisticalArbitrage(ScannedPairs[1], shouldCreate, active,
                                    pick[1], pick[2], z, positionSize) :
    quote \in [connected -> Quotes], volume \in SimpleVolumes,
    variance \in TriVariances, baseProfit \in FlashBaseProfits,
    shouldCreate \in BOOLEAN, z \in ZScores, positionSize \in StatVolumes,
    pick \in IF Cardinality(active) >= 2
               THEN {pr \in active \X active : pr[1] # pr[2]}
               ELSE {<<Venues[1], Venues[1]>>} }

\* the five detectors, updateArbitrageStats, then `isScanning = false`: with the
\* in-memory store and the simulated tickers nothing in this stretch waits for I/O
ScanDetect(s) ==
  /\ scanPc[s] = "detect"
  /\ \E added \in CycleAdds(scanConnected[s], activeExchanges, liquidityPools,
                           crossChainBridges) :
       /\ Store(added)
       /\ stats' = updateArbitrageStats(opportunities \o added, stats)
  /\ isScanning' = FALSE
  /\ scanPc' = [scanPc EXCEPT ![s] = "idle"]
  /\ scanConnected' = [scanConnected EXCEPT ![s] = {}]
  /\ UNCHANGED <<exchangeActive, liquidityPools, crossChainBridges, riskVars,
                 scannerInterval, armedTimers, execVars, callVars, now>>

\* variant: the flag is cleared inside the try block, so a raise skips it
ScanRaisesInsideTry(s) ==
  /\ scanPc[s] \in {"exchanges", "connect", "detect"}
  /\ scanPc' = [scanPc EXCEPT ![s] = "raised"]
  /\ scanConnected' = [scanConnected EXCEPT ![s] = {}]
  /\ IF scanPc[s] = "detect"
       THEN \E added \in CycleAdds(scanConnected[s], activeExchanges, liquidityPools,
                                    crossChainBridges) :
              \E n \in 0..Len(added) : Store(SubSeq(added, 1, n))
       ELSE UNCHANGED <<opportunities, opportunityId>>
  /\ UNCHANGED <<exchangeActive, liquidityPools, crossChainBridges, stats, riskVars,
                 scannerInterval, armedTimers, isScanning, execVars, callVars, now>>

\* an awaited step of the cycle rejects: the catch block logs the error and
\* the statement after it clears the flag; a detector that raises has stored
\* what it added before, and updateArbitrageStats is not reached
ScanRaises(s) ==
  /\ scanPc[s] \in {"exchanges", "connect", "detect"}
  /\ isScanning' = FALSE
  /\ scanPc' = [scanPc EXCEPT ![s] = "raised"]
  /\ scanConnected' = [scanConnected EXCEPT ![s] = {}]
  /\ IF scanPc[s] = "detect"
       THEN \E added \in CycleAdds(scanConnected[s], activeExchanges, liquidityPools,
                                    crossChainBridges) :
              \E n \in 0..Len(added) : Store(SubSeq(added, 1, n))
       ELSE UNCHANGED <<opportunities, opportunityId>>
  /\ UNCHANGED <<exchangeActive, liquidityPools, crossChainBridges, stats, riskVars,
                 scannerInterval, armedTimers, execVars, callVars, now>>

\* the longest store a detector is applied to on its own
MaxDetected == 2

\* one call of detectSimpleArbitrage(pair, exchangeNames), on the tickers that
\* getTickersForPair hands it
DetectSimple(names, quote, volume) ==
  /\ Len(opportunities) < MaxDetected
  /\ LET stored == detectSimpleArbitrage(ScannedPairs[1], names, quote, volume)
     IN /\ Store(stored)
        /\ tickers' = [names |-> names, quote |-> quote, stored |-> stored, feed |-> <<>>]
  /\ UNCHANGED <<exchangeActive, liquidityPools, crossChainBridges, stats, riskVars,
                 scanVars, execVars,
                 listed, now>>

\* pairs of COMMON_PAIRS of each table tier and one that is not in the table
TierPairs == {"BTC/USDT", "SOL/USDT", "DOGE/USDT", "ETH/USDC"}
\* tickers whose spreads against an ask of 100 are 2, 3, 4, 5 and 6 percent
\* (simulateTickerData draws each venue's base price anew: 36000..39000 for
\* BTC/USDT, 10..110 for a pair it has no range for)
SpreadQuotes == {[bid |-> 99, ask |-> 100]} \cup {[bid |-> b, ask |-> b + 1] : b \in 102..106}

\* one call of detectSimpleArbitrage(pair, exchangeNames) for a pair of COMMON_PAIRS
DetectPair(pair, names, quote, volume) ==
  /\ Len(opportunities) < MaxDetected
  /\ LET stored == detectSimpleArbitrage(pair, names, quote, volume)
     IN /\ Store(stored)
        /\ tickers' = [names |-> names, quote |-> quote, stored |-> stored, feed |-> <<>>]
  /\ UNCHANGED <<exchangeActive, liquidityPools, crossChainBridges, stats, riskVars,
                 scanVars, execVars, listed, now>>

\* what cexConnector.getTicker answers for a venue: a ticker, or null when the
\* venue or the symbol is unknown or fetchTicker raises (cex.ts 88-109)
TickerReplies == {"ticker", "null"}
\* the ticker a venue's own endpoint reports, where it reports one
RealQuote == [bid |-> 103, ask |-> 104]

\* getTickersForPair(pair, exchangeNames): the tickers it returns, by venue.
\* The venue is asked only under `exchange.type === 'cex'`; whenever no real
\* ticker was pushed the simulated one is ("Fall back to simulated data")
getTickersForPair(names, feed, simulated) ==
  [v \in names |-> IF ExchangeTypeProp(v) = "cex" /\ feed[v] = "ticker"
                     THEN RealQuote ELSE simulated[v]]

\* one call of detectSimpleArbitrage(pair, exchangeNames) with the call of
\* getTickersForPair it starts with
DetectFromFeeds(names, feed, simulated, volume) ==
  /\ Len(opportunities) < MaxDetected
  /\ LET quote == getTickersForPair(names, feed, simulated)
         stored == detectSimpleArbitrage(ScannedPairs[1], DOMAIN quote, quote, volume)
     IN /\ Store(stored)
        /\ tickers' = [names |-> DOMAIN quote, quote |-> quote, stored |-> stored,
                       feed |-> feed]
  /\ UNCHANGED <<exchangeActive, liquidityPools, crossChainBridges, stats, riskVars,
                 scanVars, execVars, listed, now>>

\* one call of detectCrossDexArbitrage past its filter of the exchange rows:
\* dexExchanges is the list the filter hands on
DetectCrossDex(dexExchanges) ==
  /\ Len(opportunities) < MaxDetected
  /\ Store(detectCrossDexArbitrage(dexExchanges, liquidityPools, crossChainBridges))
  /\ UNCHANGED <<exchangeActive, liquidityPools, crossChainBridges, stats, riskVars,
                 scanVars, execVars, callVars, now>>

(***************************************************************************)
(* Position sizer (execution.ts)                                           *)
(***************************************************************************)
\* what a balance query can return: a number, null, or an exception
BalanceAmounts == {0, 50}
BalanceReplies ==
  {[kind |-> "null", amount |-> 0], [kind |-> "throw", amount |-> 0]}
    \cup {[kind |-> "value", amount |-> a] : a \in BalanceAmounts}
\* the balance a successful query returned, -1 when there is none
Queried(reply) == IF reply.kind = "value" THEN reply.amount ELSE 0 - 1

\* getAvailableBalance: `balance || MAX_POSITION_SIZE` on a CEX,
\* `balance ? parseFloat(balance) : MAX_POSITION_SIZE` on a DEX (a string, "0.0" is truthy),
\* MAX_POSITION_SIZE / 2 when the query throws
getAvailableBalance(opp, reply) ==
  IF reply.kind = "throw" THEN MAX_POSITION_SIZE \div 2
  ELSE IF reply.kind = "null" THEN MAX_POSITION_SIZE
  ELSE IF opp.buyExchangeType = "cex"
    THEN (IF reply.amount = 0 THEN MAX_POSITION_SIZE ELSE reply.amount)
    ELSE reply.amount

\* riskFactors[opportunity.strategy] || 0.5, in tenths
RiskFactor(strategy) ==
  CASE strategy = "simple" -> 10
    [] strategy = "triangular" -> 8
    [] strategy = "cross-dex" -> 7
    [] strategy = "flash-loan" -> 5
    [] strategy = "statistical" -> 6
    [] OTHER -> 5

calculatePositionSize(opp, reply) ==
  LET capped == Min(opp.volume, MAX_POSITION_SIZE)
      raised == IF capped < MIN_POSITION_SIZE THEN MIN_POSITION_SIZE ELSE capped
      availableBalance == getAvailableBalance(opp, reply)
      funded == IF availableBalance < raised THEN availableBalance ELSE raised
  IN (funded * RiskFactor(opp.strategy)) \div 10

(***************************************************************************)
(* Executors (execution.ts): the legs an executor submits, in order        *)
(***************************************************************************)
\* assetAmount = positionSize / buyPrice, in thousandths
AssetAmount(positionSize, buyPrice) == (positionSize * 1000) \div buyPrice

Leg(kind, adapter, venue, amount) ==
  [kind |-> kind, adapter |-> adapter, venue |-> venue, amount |-> amount]

\* opportunity.route.split(sep): the route splits only at the separator it was joined with
SplitRoute(route, sep) == IF route.sep = sep THEN route.parts ELSE <<"joined">>

Truthy(field) == field # "" /\ field # "undefined"

\* currentAmount after i hops, each `currentAmount * 0.98`
RECURSIVE Decayed(_, _)
Decayed(amount, i) == IF i = 0 THEN amount ELSE (Decayed(amount, i - 1) * 98) \div 100

\* flashloans.ts: getFlashLoanProvidersForNetwork(network)[0].name
ConnectorProvider(network) ==
  CASE network = "ethereum" -> "Aave V3"
    [] network = "polygon" -> "Aave V3 Polygon"
    [] OTHER -> ""
\* flashloans.ts: getFlashLoanTokenAddress(provider, asset) is not null
ConnectorSupports(provider, asset) ==
  \/ asset \in {"USDC", "USDT", "DAI", "WETH", "WBTC"}
  \/ provider = "Aave V3 Polygon" /\ asset = "WMATIC"

Plan(error, legs) == [error |-> error, legs |-> legs]

executeSimpleArbitrage(opp, positionSize) ==
  LET assetAmount == AssetAmount(positionSize, opp.buyPrice) IN
  Plan("", << IF opp.buyExchangeType = "cex"
                THEN Leg("buy", "cex", opp.buyExchange, assetAmount)
                ELSE Leg("buy", "dex", opp.buyExchange, positionSize),
              IF opp.sellExchangeType = "cex"
                THEN Leg("sell", "cex", opp.sellExchange, assetAmount)
                ELSE Leg("sell", "dex", opp.sellExchange, assetAmount) >>)

\* the separator of execution.ts:270 is not the one the detector joins the route with
executeTriangularArbitrage(opp, positionSize) ==
  LET steps == SplitRoute(opp.route, "mojibake") IN
  IF Len(steps) < 3 THEN Plan("Invalid triangular arbitrage route", <<>>)
  ELSE Plan("", [i \in 1..(Len(steps) - 1) |->
                   Leg("hop", IF opp.buyExchangeType = "cex" THEN "cex" ELSE "dex",
                       opp.buyExchange, Decayed(positionSize, i - 1))])

executeCrossDexArbitrage(opp, positionSize) ==
  LET assetAmount == AssetAmount(positionSize, opp.buyPrice)
      isCrossNetwork == opp.buyNetwork # opp.sellNetwork
  IN Plan("", <<Leg("buy", "dex", opp.buyExchange, positionSize)>>
              \o (IF isCrossNetwork /\ Truthy(opp.crossChainBridge)
                    THEN <<Leg("bridge", "bridge", opp.crossChainBridge, assetAmount)>>
                    ELSE <<>>)
              \o <<Leg("sell", "dex", opp.sellExchange, assetAmount)>>)

executeFlashLoanArbitrage(opp, positionSize) ==
  LET network == IF Truthy(opp.buyNetwork) THEN opp.buyNetwork ELSE "ethereum"
      provider == ConnectorProvider(network)
  IN IF provider = "" THEN Plan("No flash loan providers available", <<>>)
     ELSE IF ~ConnectorSupports(provider, opp.assetPair) THEN Plan("Token not supported", <<>>)
     ELSE Plan("", <<Leg("loan", "flashloan", provider, positionSize * 10)>>)

\* a short position submits nothing and reports 'simulated_short_trade_tx'
executeStatisticalArbitrage(opp, positionSize) ==
  IF opp.route.parts[1] = "Long"
    THEN Plan("", << IF opp.buyExchangeType = "cex"
                       THEN Leg("buy", "cex", opp.buyExchange, AssetAmount(positionSize, opp.buyPrice))
                       ELSE Leg("buy", "dex", opp.buyExchange, positionSize) >>)
    ELSE Plan("", <<>>)

\* the switch of executeArbitrage
ExecutorPlan(opp, positionSize) ==
  CASE opp.strategy = "simple" -> executeSimpleArbitrage(opp, positionSize)
    [] opp.strategy = "triangular" -> executeTriangularArbitrage(opp, positionSize)
    [] opp.strategy = "cross-dex" -> executeCrossDexArbitrage(opp, positionSize)
    [] opp.strategy = "flash-loan" -> executeFlashLoanArbitrage(opp, positionSize)
    [] opp.strategy = "statistical" -> executeStatisticalArbitrage(opp, positionSize)
    [] OTHER -> Plan("Unsupported strategy", <<>>)

\* the profit an executor reports on success
RealizedProfit(opp, positionSize) ==
  CASE opp.strategy = "simple" ->
         (positionSize * (opp.sellPrice - opp.buyPrice)) \div opp.buyPrice
    [] opp.strategy = "triangular" ->
         Decayed(positionSize, Len(SplitRoute(opp.route, "mojibake")) - 1) - positionSize
    [] opp.strategy = "cross-dex" ->
         (positionSize * opp.sellPrice) \div opp.buyPrice - positionSize
           - (IF opp.buyNetwork # opp.sellNetwork
                THEN (positionSize \div opp.buyPrice) \div 1000 ELSE 0)
    [] opp.strategy = "flash-loan" ->
         (positionSize * 10 * (opp.profitPercentage \div 100)) \div PCT
    [] OTHER -> (positionSize * (opp.profitPercentage \div 100)) \div PCT

\* whether the failure result of leg k carries transactionHashes
FailureListsTxs(opp, k) ==
  CASE opp.strategy \in {"simple", "cross-dex"} -> k > 1
    [] opp.strategy = "triangular" -> TRUE
    [] OTHER -> FALSE

(***************************************************************************)
(* Execution coordinator (execution.ts, executeArbitrage)                  *)
(***************************************************************************)
\* legNamed: the leg that the error message names, by its step number
\* ('Failed to execute step 2 on ...') or by its side ('Failed to execute sell
\* order on ...'); 0 when the message names none
Result(success, error, present, txs, profit) ==
  [success |-> success, error |-> error, txsPresent |-> present,
   transactionHashes |-> txs, profit |-> profit, legNamed |-> 0,
   strategy |-> "unknown"]
NoResult == Result(FALSE, "none", FALSE, <<>>, 0)
Failure(error) == Result(FALSE, error, FALSE, <<>>, 0)

\* the test of executeArbitrage on the opportunity it has read
\* variant: the coordinator never looks at isActive
StillActiveAlways(opp) == TRUE

StillActive(opp) == opp.isActive

\* executeArbitrage returns: its locals are gone, the caller holds the result
Return(p, strategy, result) ==
  /\ execPc' = [execPc EXCEPT ![p] = "done"]
  /\ execResult' = [execResult EXCEPT ![p] = [result EXCEPT !.strategy = strategy]]
  /\ execSize' = [execSize EXCEPT ![p] = 0]
  /\ execBalance' = [execBalance EXCEPT ![p] = 0 - 1]
  /\ execCalls' = [execCalls EXCEPT ![p] = <<>>]
  /\ execTxs' = [execTxs EXCEPT ![p] = <<>>]
  /\ execBridge' = [execBridge EXCEPT ![p] = "none"]

\* variant: one guard for a missing and for an inactive opportunity
ExecStartOneGuard(p, id) ==
  /\ execPc[p] = "idle"
  /\ \A q \in ExecSlots : execPc[q] = "idle" => p <= q
  /\ execId' = [execId EXCEPT ![p] = id]
  /\ IF id \notin DOMAIN opportunities
       THEN Return(p, "unknown", Failure("Opportunity is no longer active"))
       ELSE IF ~StillActive(opportunities[id])
         THEN Return(p, opportunities[id].strategy, Failure("Opportunity is no longer active"))
         ELSE /\ execPc' = [execPc EXCEPT ![p] = "sizing"]
              /\ UNCHANGED <<execResult, execSize, execBalance, execCalls, execTxs, execBridge>>
  /\ UNCHANGED <<storeVars, riskVars, scanVars, callVars, now>>

\* executeArbitrage(id) up to the balance query
ExecStart(p, id) ==
  /\ execPc[p] = "idle"
  /\ \A q \in ExecSlots : execPc[q] = "idle" => p <= q
  /\ execId' = [execId EXCEPT ![p] = id]
  /\ IF id \notin DOMAIN opportunities
       THEN Return(p, "unknown", Failure("not found"))
       ELSE IF ~StillActive(opportunities[id])
         THEN Return(p, opportunities[id].strategy, Failure("Opportunity is no longer active"))
         ELSE /\ execPc' = [execPc EXCEPT ![p] = "sizing"]
              /\ UNCHANGED <<execResult, execSize, execBalance, execCalls, execTxs, execBridge>>
  /\ UNCHANGED <<storeVars, riskVars, scanVars, callVars, now>>

\* the balance query answers; calculatePositionSize returns; the executor starts
ExecSized(p, reply) ==
  /\ execPc[p] = "sizing"
  /\ LET opp == opportunities[execId[p]]
         positionSize == calculatePositionSize(opp, reply)
         plan == ExecutorPlan(opp, positionSize)
     IN IF positionSize <= 0
          THEN /\ Return(p, opp.strategy, Failure("Insufficient balance or position size too small"))
               /\ UNCHANGED opportunities
          ELSE IF plan.error # ""
            THEN /\ Return(p, opp.strategy, Failure(plan.error))
                 /\ UNCHANGED opportunities
            ELSE IF plan.legs = <<>>
              THEN /\ Return(p, opp.strategy, Result(TRUE, "", TRUE, <<"simulated_short_trade_tx">>,
                                       RealizedProfit(opp, positionSize)))
                   /\ opportunities' = deactivateOpportunity(opportunities, execId[p])
              ELSE /\ execPc' = [execPc EXCEPT ![p] = "legs"]
                   /\ execBalance' = [execBalance EXCEPT ![p] = Queried(reply)]
                   /\ execSize' = [execSize EXCEPT ![p] = positionSize]
                   /\ UNCHANGED <<opportunities, execCalls, execTxs, execResult, execBridge>>
  /\ UNCHANGED <<opportunityId, exchangeActive, liquidityPools, crossChainBridges, stats,
                 riskVars, scanVars,
                 callVars, now, execId>>

\* bridges.ts bridgeConfigs: the protocols the bridge adapter is configured with
bridgeConfigs ==
  { [name |-> "Axelar",
     networks |-> {"ethereum", "polygon", "avalanche", "fantom", "arbitrum"},
     supportedTokens |-> {"USDC", "USDT", "WETH"}],
    [name |-> "LayerZero",
     networks |-> {"ethereum", "binance", "avalanche", "arbitrum", "optimism"},
     supportedTokens |-> {"USDC", "USDT"}] }

\* bridgeConfigs.find(b => b.name.toLowerCase() === name.toLowerCase()), as the
\* set of the configurations found: empty for null
getBridgeProtocol(name) ==
  {b \in bridgeConfigs : LowerCase(b.name) = LowerCase(name)}

\* assetPair.split('/')[0] on the pairs of the model
BaseSymbol(pair) ==
  CASE pair = "ETH/USDT" -> "ETH"
    [] pair = "WETH/USDT" -> "WETH"
    [] pair = "BTC/USDT" -> "BTC"
    [] pair = "LINK/USDT" -> "LINK"
    [] OTHER -> pair

\* the guards of bridgeTransfer before it reaches for a wallet: the error it
\* returns, "" when it goes on to the wallet and the chain
bridgeTransfer(bridgeName, sourceNetwork, destinationNetwork, tokenSymbol) ==
  LET bridge == getBridgeProtocol(bridgeName) IN
  IF bridge = {} THEN "Bridge not supported"
  ELSE IF \A b \in bridge : sourceNetwork \notin b.networks
                             \/ destinationNetwork \notin b.networks
    THEN "Network pair not supported"
  ELSE IF \A b \in bridge : tokenSymbol \notin b.supportedTokens
    THEN "Token not supported"
  ELSE ""

\* the next leg is submitted and its adapter call answers
LegOutcomes == {"ok", "null", "throw"}

\* variant: the leg that was just answered is submitted again
SameLeg(calls) == IF calls = <<>> THEN 1 ELSE Len(calls)

\* an executor is straight-line code: the leg to submit is the one after the
\* legs already answered (RETRY_ATTEMPTS is declared and never read)
NextLeg(calls) == Len(calls) + 1

ExecLeg(p, outcome) ==
  /\ execPc[p] = "legs"
  /\ LET opp == opportunities[execId[p]]
         plan == ExecutorPlan(opp, execSize[p])
         k == NextLeg(execCalls[p])
         leg == plan.legs[k]
         txs == Append(execTxs[p], leg.kind)
         refused == IF leg.kind = "bridge"
                      THEN bridgeTransfer(leg.venue, opp.buyNetwork, opp.sellNetwork,
                                          BaseSymbol(opp.assetPair))
                      ELSE ""
     IN /\ refused # "" => outcome = "null"
        /\ CASE outcome = "ok" /\ k < Len(plan.legs) ->
               /\ execCalls' = [execCalls EXCEPT ![p] = Append(@, leg)]
               /\ execTxs' = [execTxs EXCEPT ![p] = txs]
               /\ execBridge' = [execBridge EXCEPT ![p] = IF leg.kind = "bridge" THEN "sent" ELSE @]
               /\ UNCHANGED <<execPc, execResult, execSize, execBalance, opportunities>>
          [] outcome = "ok" /\ k = Len(plan.legs) ->
               /\ Return(p, opp.strategy, Result(TRUE, "", TRUE, txs, RealizedProfit(opp, execSize[p])))
               /\ opportunities' = deactivateOpportunity(opportunities, execId[p])
          [] outcome = "null" ->
               /\ Return(p, opp.strategy, [Result(FALSE, IF refused # "" THEN refused ELSE "leg failed",
                                    FailureListsTxs(opp, k),
                                    IF FailureListsTxs(opp, k) THEN execTxs[p] ELSE <<>>, 0)
                                EXCEPT !.legNamed = k])
               /\ UNCHANGED opportunities
          [] outcome = "throw" ->
               /\ Return(p, opp.strategy, Failure("threw"))
               /\ UNCHANGED opportunities
  /\ UNCHANGED <<opportunityId, exchangeActive, liquidityPools, crossChainBridges, stats,
                 riskVars, scanVars,
                 callVars, now, execId>>

\* the destination network delivers a transfer that bridgeTransfer has sent:
\* bridgeTransfer answers when its transaction is mined on the source network
\* (bridges.ts 311-318), the delivery is an event of the other chain
BridgeCompletes(p) ==
  /\ execBridge[p] = "sent"
  /\ execBridge' = [execBridge EXCEPT ![p] = "arrived"]
  /\ UNCHANGED <<storeVars, riskVars, scanVars, callVars, now,
                 execPc, execId, execSize, execBalance, execCalls, execTxs, execResult>>

\* the caller has read the result; the call is over
ExecReturn(p) ==
  /\ execPc[p] = "done"
  /\ execPc' = [execPc EXCEPT ![p] = "idle"]
  /\ execId' = [execId EXCEPT ![p] = 0]
  /\ execResult' = [execResult EXCEPT ![p] = NoResult]
  /\ UNCHANGED <<storeVars, riskVars, scanVars, callVars, now,
                 execSize, execBalance, execCalls, execTxs, execBridge>>

(***************************************************************************)
(* The environment: the HTTP routes that write the store, and the clock    *)
(***************************************************************************)
\* bodies that POST /api/opportunities accepts (routes.ts)
ApiOpportunities ==
  { NewOpportunity("api", "simple", "BTC/USDT", "Binance", "Coinbase", 100, 102,
       2 * PCT, 5000, "low", Route("arrow", <<"Binance", "Coinbase">>),
       "cex", "cex", "undefined", "undefined", "undefined"),
    NewOpportunity("api", "cross-dex", "WETH/USDT", "Uniswap", "QuickSwap", 100, 105,
       4 * PCT, 20000, "high", Route("arrow", <<"Uniswap", "QuickSwap">>),
       "dex", "dex", "ethereum", "polygon", "Axelar"),
    NewOpportunity("api", "flash-loan", "USDC", "Uniswap", "SushiSwap", 1000, 1000,
       1 * PCT, 1000000, "high", Route("arrow", <<"Aave", "Uniswap", "SushiSwap", "Aave">>),
       "dex", "dex", "ethereum", "ethereum", "undefined") }

PostOpportunity(opp) ==
  /\ Cardinality({i \in DOMAIN opportunities : opportunities[i].origin = "api"}) < MaxPosts
  /\ Store(<<opp>>)
  /\ UNCHANGED <<exchangeActive, liquidityPools, crossChainBridges, stats, riskVars,
                 scanVars, execVars, callVars, now>>

\* bodies that POST /api/dex/liquidity-pools accepts: pools of one pair with
\* implied prices in the ratio 10.0 : 10.5 : 10.5 : 10.49 : 9.5 (0.0100,
\* 0.0105, 0.0105, 0.01049, 0.0095), each with a fee of 0.3
PostedPools ==
  { [exchange |-> "Uniswap", network |-> "ethereum", pair |-> "LINK/USDT",
     liquidityUSD |-> 1000000, token0Amount |-> 1000, token1Amount |-> 100000, fee |-> 3000],
    [exchange |-> "QuickSwap", network |-> "polygon", pair |-> "LINK/USDT",
     liquidityUSD |-> 1000000, token0Amount |-> 1050, token1Amount |-> 100000, fee |-> 3000],
    [exchange |-> "SushiSwap", network |-> "ethereum", pair |-> "LINK/USDT",
     liquidityUSD |-> 1000000, token0Amount |-> 1050, token1Amount |-> 100000, fee |-> 3000],
    [exchange |-> "Uniswap", network |-> "ethereum", pair |-> "LINK/USDT",
     liquidityUSD |-> 1000000, token0Amount |-> 1049, token1Amount |-> 100000, fee |-> 3000],
    [exchange |-> "QuickSwap", network |-> "polygon", pair |-> "LINK/USDT",
     liquidityUSD |-> 1000000, token0Amount |-> 950, token1Amount |-> 100000, fee |-> 3000] }

\* MemStorage.getLiquidityPoolByPair: the position of the pool, 0 when there is none
getLiquidityPoolByPair(pools, exchange, network, pair) ==
  LET found == {k \in DOMAIN pools : /\ pools[k].exchange = exchange
                                     /\ pools[k].network = network
                                     /\ pools[k].pair = pair}
  IN IF found = {} THEN 0 ELSE CHOOSE k \in found : \A j \in found : k <= j

\* MemStorage.addLiquidityPool: the pool of the same exchange, network and pair
\* is overwritten in place, a new pool gets the next id
addLiquidityPool(pools, pool) ==
  LET k == getLiquidityPoolByPair(pools, pool.exchange, pool.network, pool.pair)
  IN IF k # 0 THEN [pools EXCEPT ![k] = pool] ELSE Append(pools, pool)

\* POST /api/dex/liquidity-pools
AddLiquidityPool(pool) ==
  /\ addLiquidityPool(liquidityPools, pool) # liquidityPools
  /\ liquidityPools' = addLiquidityPool(liquidityPools, pool)
  /\ UNCHANGED <<opportunities, opportunityId, exchangeActive, crossChainBridges, stats,
                 riskVars, scanVars, execVars, callVars, now>>

\* bodies that POST /api/dex/bridges accepts: a second bridge from ethereum to
\* polygon, and one for the way back
PostedBridges ==
  { [name |-> "Hop Bridge", sourceNetwork |-> "ethereum", destinationNetwork |-> "polygon"],
    [name |-> "Plasma Exit", sourceNetwork |-> "polygon", destinationNetwork |-> "ethereum"] }

\* MemStorage.addCrossChainBridge: always a new record, under the next id
addCrossChainBridge(bridges, bridge) == Append(bridges, bridge)

\* the most bridge records the store holds
MaxBridges == 5

\* POST /api/dex/bridges
AddCrossChainBridge(bridge) ==
  /\ Len(crossChainBridges) < MaxBridges
  /\ crossChainBridges' = addCrossChainBridge(crossChainBridges, bridge)
  /\ UNCHANGED <<opportunities, opportunityId, exchangeActive, liquidityPools, stats,
                 riskVars, scanVars, execVars, callVars, now>>

\* two pools of one pair that hold less than MIN_POSITION_SIZE
ThinPools ==
  { [exchange |-> "Uniswap", network |-> "ethereum", pair |-> "UNI/USDT",
     liquidityUSD |-> 100, token0Amount |-> 1000, token1Amount |-> 100000, fee |-> 3000],
    [exchange |-> "SushiSwap", network |-> "ethereum", pair |-> "UNI/USDT",
     liquidityUSD |-> 100, token0Amount |-> 1050, token1Amount |-> 100000, fee |-> 3000] }

\* cross-dex bodies of POST /api/opportunities with the fields that
\* detectCrossDexArbitrage computes from two pools: the volume is 5% of the
\* smaller liquidity, at most MAX_POSITION_SIZE (arbitrage.ts 436-440)
PoolOpportunities ==
  { NewOpportunity("api", "cross-dex", "UNI/USDT", "Uniswap", "SushiSwap", 10000, 10500,
       44000, 5, "medium", Route("arrow", <<"Uniswap", "SushiSwap">>),
       "dex", "dex", "ethereum", "ethereum", "undefined"),
    NewOpportunity("api", "cross-dex", "LINK/USDT", "Uniswap", "SushiSwap", 10000, 10500,
       44000, 10000, "medium", Route("arrow", <<"Uniswap", "SushiSwap">>),
       "dex", "dex", "ethereum", "ethereum", "undefined") }

\* cross-network cross-dex bodies of POST /api/opportunities: with the bridge
\* detectCrossDexArbitrage resolves, with the '' it leaves when storage has no
\* bridge for the two networks (arbitrage.ts 404, 423-426), and without the
\* optional field
BridgedOpportunities ==
  { NewOpportunity("api", "cross-dex", named[1], "Uniswap", "QuickSwap", 100, 105,
       4 * PCT, 20000, "high", Route("arrow", <<"Uniswap", "QuickSwap">>),
       "dex", "dex", "ethereum", "polygon", named[2]) :
    named \in {<<"ETH/USDT", "Polygon Bridge">>, <<"ETH/USDT", "">>,
               <<"ETH/USDT", "undefined">>, <<"WETH/USDT", "Axelar">>,
               <<"ETH/USDT", "axelar">>} }

\* GET /api/opportunities: the query string as the route hands it on
QueryMinProfits == {0, 2 * PCT, 3 * PCT}
QueryStrategies == {"all", "ALL", "simple", "Simple", "cross-dex"}

\* GET /api/opportunities: one call of storage.getOpportunities
GetOpportunities(minProfit, strategy) ==
  /\ listed' = [minProfit |-> minProfit, strategy |-> strategy,
                rows |-> getOpportunities(opportunities, minProfit, strategy)]
  /\ UNCHANGED <<storeVars, riskVars, scanVars, execVars, tickers, now>>

\* the venues whose isActive the model lets the route change
ToggledVenues == {"Coinbase"}

\* POST /api/exchanges: upsertExchange with a new isActive
UpsertExchange(v, active) ==
  /\ v \in ToggledVenues
  /\ exchangeActive[v] # active
  /\ exchangeActive' = [exchangeActive EXCEPT ![v] = active]
  /\ UNCHANGED <<opportunities, opportunityId, liquidityPools, crossChainBridges, stats,
                 riskVars, scanVars,
                 execVars, callVars, now>>

\* every opportunity a detector can store under the reference data
DetectorOutputs ==
  UNION { {added[i] : i \in DOMAIN added} :
          added \in UNION { CycleAdds(c, VenueSet, defaultLiquidityPools, defaultBridges) :
                    c \in SUBSET VenueSet } }

\* the store gains one opportunity, from a detector of a scan cycle or from the API
StoreGains(opp) ==
  /\ Len(opportunities) < MaxStocked
  /\ Store(<<opp>>)
  /\ UNCHANGED <<exchangeActive, liquidityPools, crossChainBridges, stats, riskVars,
                 scanVars, execVars, callVars, now>>

AdvanceClock ==
  /\ now < MaxClockSteps * ClockStep
  /\ now' = now + ClockStep
  /\ UNCHANGED <<storeVars, riskVars, scanVars, execVars, callVars>>

(***************************************************************************)
(* Specifications                                                          *)
(***************************************************************************)
\* before any call of detectSimpleArbitrage, of getOpportunities
NoTickers == [names |-> {}, quote |-> <<>>, stored |-> <<>>, feed |-> <<>>]
NoListing == [minProfit |-> 0, strategy |-> "none", rows |-> <<>>]

\* the state after construction, over the given exchange rows and opportunities
InitWith(store, rows) ==
  /\ opportunities = store
  /\ opportunityId = Len(store) + 1
  /\ exchangeActive = [v \in rows |-> TRUE]
  /\ liquidityPools = defaultLiquidityPools
  /\ crossChainBridges = defaultBridges
  /\ stats = [totalOpportunities |-> 276, simpleArbitrageCount |-> 182,
              triangularArbitrageCount |-> 47, crossDexArbitrageCount |-> 32,
              flashLoanArbitrageCount |-> 15]
  /\ scannerInterval = FALSE
  /\ armedTimers = 0
  /\ isScanning = FALSE
  /\ lastResetTime = 0
  /\ now = 0
  /\ scanPc = [s \in ScanSlots |-> "idle"]
  /\ scanConnected = [s \in ScanSlots |-> {}]
  /\ execPc = [p \in ExecSlots |-> "idle"]
  /\ execId = [p \in ExecSlots |-> 0]
  /\ execSize = [p \in ExecSlots |-> 0]
  /\ execBalance = [p \in ExecSlots |-> 0 - 1]
  /\ execCalls = [p \in ExecSlots |-> <<>>]
  /\ execTxs = [p \in ExecSlots |-> <<>>]
  /\ execResult = [p \in ExecSlots |-> NoResult]
  /\ execBridge = [p \in ExecSlots |-> "none"]
  /\ tickers = NoTickers
  /\ listed = NoListing

InitProgram == InitWith(<<>>, VenueSet)

\* the state after the modules are loaded
Init ==
  /\ InitProgram
  /\ consecutiveLosses = 0
  /\ dailyProfitLoss = 0

\* the scan scheduler with the routes and the clock around it
ScanNext ==
  \/ startArbitrageScanner
  \/ TimerTick
  \/ stopArbitrageScanner
  \/ \E s \in ScanSlots : ScanExchanges(s)
  \/ \E s \in ScanSlots : ScanReturn(s)
  \/ \E s \in ScanSlots : ScanConnect(s)
  \/ \E s \in ScanSlots : ScanDetect(s)
  \/ \E opp \in ApiOpportunities : PostOpportunity(opp)
  \/ \E v \in VenueSet, active \in BOOLEAN : UpsertExchange(v, active)
  \/ AdvanceClock

\* the execution coordinator with the store filling up around it
ExecNext ==
  \/ \E opp \in ApiOpportunities \cup DetectorOutputs : StoreGains(opp)
  \/ \E p \in ExecSlots, id \in 1..opportunityId : ExecStart(p, id)
  \/ \E p \in ExecSlots, reply \in BalanceReplies : ExecSized(p, reply)
  \/ \E p \in ExecSlots, outcome \in LegOutcomes : ExecLeg(p, outcome)
  \/ \E p \in ExecSlots : BridgeCompletes(p)
  \/ \E p \in ExecSlots : ExecReturn(p)

(* The scheduler only appends to the store and the coordinator only reads an   *)
(* opportunity and clears its isActive, so the two are checked apart: ScanSpec *)
(* runs the scheduler, ExecSpec the coordinator against a store that gains the *)
(* opportunities the scheduler and the API can put there.                      *)
ScanSpec == Init /\ [][ScanNext]_vars

\* the event loop resumes a cycle whose awaited step has settled
ScanLiveSpec ==
  ScanSpec /\ \A s \in ScanSlots :
                WF_vars(ScanExchanges(s) \/ ScanConnect(s) \/ ScanDetect(s))
ExecSpec == Init /\ [][ExecNext]_vars

\* one caller of executeArbitrage, with scan cycles and posts around it
MixedNext ==
  \/ startArbitrageScanner
  \/ \E s \in ScanSlots : ScanExchanges(s)
  \/ \E s \in ScanSlots : ScanReturn(s)
  \/ \E s \in ScanSlots : ScanConnect(s)
  \/ \E s \in ScanSlots : ScanDetect(s)
  \/ \E opp \in ApiOpportunities : PostOpportunity(opp)
  \/ \E id \in 1..opportunityId : ExecStart(1, id)
  \/ \E reply \in BalanceReplies : ExecSized(1, reply)
  \/ \E outcome \in LegOutcomes : ExecLeg(1, outcome)
  \/ ExecReturn(1)

\* scan cycles and executions interleaved on one store
MixedSpec == Init /\ [][MixedNext]_vars

\* the longest store getOpportunities is applied to
MaxListed == 3

\* rows a store can hold: what the API accepts, with either value of isActive
\* and with the strategy in either spelling
QueryRows ==
  LET spelled == ApiOpportunities \cup
                 {[opp EXCEPT !.strategy = "Simple", !.profitPercentage = 3 * PCT] :
                    opp \in {o \in ApiOpportunities : o.strategy = "simple"}}
  IN  {[opp EXCEPT !.isActive = a] : opp \in spelled, a \in BOOLEAN}

QueryStores == UNION {[1..n -> QueryRows] : n \in 0..MaxListed}

InitQuery ==
  /\ \E store \in QueryStores : InitWith(store, VenueSet)
  /\ consecutiveLosses = 0
  /\ dailyProfitLoss = 0

QueryNext ==
  \E minProfit \in QueryMinProfits, strategy \in QueryStrategies :
    GetOpportunities(minProfit, strategy)

\* getOpportunities applied to every store of up to MaxListed rows
QuerySpec == InitQuery /\ [][QueryNext]_vars

InitDex ==
  /\ InitWith(<<>>, DexVenueSet)
  /\ consecutiveLosses = 0
  /\ dailyProfitLoss = 0

DexScanNext ==
  \/ startArbitrageScanner
  \/ \E s \in ScanSlots : ScanExchanges(s)
  \/ \E s \in ScanSlots : ScanReturn(s)
  \/ \E s \in ScanSlots : ScanConnect(s)
  \/ \E s \in ScanSlots : ScanDetect(s)
  \/ \E pool \in PostedPools : AddLiquidityPool(pool)

\* scan cycles over the DEX rows, with pools posted around them
DexScanSpec == InitDex /\ [][DexScanNext]_vars

LiquidityNext ==
  \/ \E pool \in ThinPools \cup PostedPools : AddLiquidityPool(pool)
  \/ \E opp \in PoolOpportunities : PostOpportunity(opp)
  \/ \E id \in 1..opportunityId : ExecStart(1, id)
  \/ \E reply \in BalanceReplies : ExecSized(1, reply)
  \/ \E outcome \in LegOutcomes : ExecLeg(1, outcome)
  \/ ExecReturn(1)

\* executions of cross-dex opportunities over posted pools
LiquiditySpec == InitDex /\ [][LiquidityNext]_vars

BridgeNext ==
  \/ \E opp \in BridgedOpportunities : StoreGains(opp)
  \/ \E p \in ExecSlots, id \in 1..opportunityId : ExecStart(p, id)
  \/ \E p \in ExecSlots, reply \in BalanceReplies : ExecSized(p, reply)
  \/ \E p \in ExecSlots, outcome \in LegOutcomes : ExecLeg(p, outcome)
  \/ \E p \in ExecSlots : BridgeCompletes(p)
  \/ \E p \in ExecSlots : ExecReturn(p)

\* the coordinator called with any id, in the store or not
AnyIdNext ==
  \/ \E opp \in ApiOpportunities \cup DetectorOutputs : StoreGains(opp)
  \/ \E p \in ExecSlots, id \in 0..(opportunityId + 1) : ExecStart(p, id)
  \/ \E p \in ExecSlots, reply \in BalanceReplies : ExecSized(p, reply)
  \/ \E p \in ExecSlots, outcome \in LegOutcomes : ExecLeg(p, outcome)
  \/ \E p \in ExecSlots : ExecReturn(p)

AnyIdSpec == Init /\ [][AnyIdNext]_vars

\* executions of cross-network opportunities, with and without a bridge
BridgeSpec == Init /\ [][BridgeNext]_vars

\* the step of executeArbitrage that slot p is awaiting: every adapter call
\* answers, with a value, with nothing or with an exception
ExecStep(p) ==
  \/ \E reply \in BalanceReplies : ExecSized(p, reply)
  \/ \E outcome \in LegOutcomes : ExecLeg(p, outcome)

\* BridgeSpec with every awaited call answering; nothing makes the destination
\* network deliver a transfer, and nothing makes a caller start or collect
BridgeLiveSpec == BridgeSpec /\ \A p \in ExecSlots : WF_vars(ExecStep(p))

InitDetector ==
  /\ InitWith(<<>>, TickerVenueSet \cup DexVenueSet)
  /\ consecutiveLosses = 0
  /\ dailyProfitLoss = 0

DetectorNext ==
  \E names \in SUBSET TickerVenueSet, volume \in SimpleVolumes :
    \E quote \in [names -> TickerQuotes] : DetectSimple(names, quote, volume)

\* detectSimpleArbitrage applied one call at a time to every draw of its tickers
DetectorSpec == InitDetector /\ [][DetectorNext]_vars

TierNext ==
  \E pair \in TierPairs, names \in SUBSET VenueSet, volume \in SimpleVolumes :
    \E quote \in [names -> SpreadQuotes] : DetectPair(pair, names, quote, volume)

\* detectSimpleArbitrage over pairs of every table tier and spreads up to 6%
TierSpec == InitDetector /\ [][TierNext]_vars

\* two tickers, so that of three venues two tie on the ask or on the bid
TiedQuotes == {[bid |-> 99, ask |-> 100], [bid |-> 101, ask |-> 102]}
\* the posted pools of which two tie on the highest price
TiedPools == {pool \in PostedPools : pool.token0Amount \in {1000, 1050}}

TieNext ==
  \/ \E quote \in [TickerVenueSet -> TiedQuotes], volume \in SimpleVolumes :
       DetectSimple(TickerVenueSet, quote, volume)
  \/ DetectCrossDex(DexVenueSet)
  \/ \E pool \in TiedPools : AddLiquidityPool(pool)

\* the two detectors that choose venues by price, over tickers and pools that
\* tie on the extreme price
TieSpec == InitDetector /\ [][TieNext]_vars

FeedNext ==
  \E names \in SUBSET TickerVenueSet, volume \in SimpleVolumes :
    \E feed \in [names -> TickerReplies], simulated \in [names -> Quotes] :
      DetectFromFeeds(names, feed, simulated, volume)

\* detectSimpleArbitrage with getTickersForPair, for every answer of the venues
FeedSpec == InitDetector /\ [][FeedNext]_vars

DexDetectorNext ==
  \/ \E dexExchanges \in SUBSET DexVenueSet : DetectCrossDex(dexExchanges)
  \/ \E pool \in PostedPools : AddLiquidityPool(pool)
  \/ \E bridge \in PostedBridges : AddCrossChainBridge(bridge)

\* detectCrossDexArbitrage applied one call at a time to every list of DEX
\* rows, with pools and bridge records posted around the calls
DexDetectorSpec == InitDetector /\ [][DexDetectorNext]_vars

(* No statement of the program assigns consecutiveLosses, and dailyProfitLoss  *)
(* is assigned only by resetDailyCounters; the risk gate is a function of a    *)
(* RiskState that Init always leaves at (0, 0). The specifications below draw  *)
(* the RiskState from both sides of each threshold instead.                    *)
RiskStates ==
  { <<0, 0>>,
    <<CIRCUIT_BREAKER_THRESHOLD - 1, 0 - MAX_DAILY_LOSS>>,
    <<CIRCUIT_BREAKER_THRESHOLD, 0>>,
    <<0, 0 - MAX_DAILY_LOSS - 1>> }

InitRisk ==
  /\ InitProgram
  /\ \E r \in RiskStates : consecutiveLosses = r[1] /\ dailyProfitLoss = r[2]

RiskScanSpec == InitRisk /\ [][ScanNext]_vars

\* the scan scheduler with steps of the cycle that raise
RaisingScanNext ==
  \/ startArbitrageScanner
  \/ TimerTick
  \/ stopArbitrageScanner
  \/ \E s \in ScanSlots : ScanExchanges(s)
  \/ \E s \in ScanSlots : ScanReturn(s)
  \/ \E s \in ScanSlots : ScanConnect(s)
  \/ \E s \in ScanSlots : ScanDetect(s)
  \/ \E s \in ScanSlots : ScanRaises(s)
  \/ \E v \in VenueSet, active \in BOOLEAN : UpsertExchange(v, active)

RaisingScanSpec == InitRisk /\ [][RaisingScanNext]_vars
RiskExecSpec == InitRisk /\ [][ExecNext]_vars

(***************************************************************************)
(* Properties                                                              *)
(***************************************************************************)
CyclePcs == {"exchanges", "connect", "detect"}
Stale == "Opportunity is no longer active"
Submitting(p) == execPc[p] = "legs" /\ execCalls[p] # <<>>
Succeeded(p) == execPc[p] = "done" /\ execResult[p].success
\* slot p settles in this step
Settles(p) == execPc[p] # "done" /\ execPc'[p] = "done"
\* slot s is entered by an invocation of performArbitrageScan in this step
Invoked(s) == scanPc[s] = "idle" /\ scanPc'[s] # "idle"

\* C1: of the calls of executeArbitrage on one id, at most one has submitted a
\* leg and at most one has settled as success
C1_OneExecutionPerId ==
  \A p \in ExecSlots, q \in ExecSlots :
    p # q /\ execId[p] = execId[q] =>
      /\ ~(Submitting(p) /\ Submitting(q))
      /\ ~(Succeeded(p) /\ Succeeded(q))
      /\ ~(Succeeded(p) /\ Submitting(q))

\* C2: a call of executeArbitrage on an id whose opportunity is stored with
\* isActive = false settles in the same step as the 'no longer active' failure,
\* with no balance query and no leg, and leaves the store as it was
C2_StaleRejected ==
  [][\A p \in ExecSlots :
       ( /\ execPc[p] = "idle" /\ execPc'[p] # "idle"
         /\ execId'[p] \in DOMAIN opportunities
         /\ ~opportunities[execId'[p]].isActive )
       => /\ execPc'[p] = "done"
          /\ execResult'[p] = [Failure(Stale) EXCEPT !.strategy = execResult'[p].strategy]
          /\ execBalance'[p] = 0 - 1
          /\ execCalls'[p] = <<>>
          /\ execTxs'[p] = <<>>
          /\ UNCHANGED storeVars]_vars

C2_Witness ==
  \E p \in ExecSlots :
    /\ execPc[p] = "done"
    /\ execResult[p] = [Failure(Stale) EXCEPT !.strategy = execResult[p].strategy]
    /\ ~opportunities[execId[p]].isActive

\* C3: at most one invocation of performArbitrageScan is inside a cycle, and
\* the flag is up exactly then; an invocation that arrives while a cycle runs
\* ends as skipped with the store, the statistics and the flag untouched; a
\* skipped invocation does nothing later but end
C3_OneCycle ==
  /\ [](/\ Cardinality({s \in ScanSlots : scanPc[s] \in CyclePcs}) <= 1
        /\ isScanning <=> \E s \in ScanSlots : scanPc[s] \in CyclePcs)
  /\ [][\A s \in ScanSlots :
          /\ (Invoked(s) /\ \E t \in ScanSlots : scanPc[t] \in CyclePcs)
               => /\ scanPc'[s] = "skipped"
                  /\ UNCHANGED <<storeVars, riskVars, isScanning>>
                  /\ \A t \in ScanSlots \ {s} : scanPc'[t] = scanPc[t]
          /\ scanPc[s] = "skipped" => scanPc'[s] \in {"skipped", "idle"}]_vars

C3_Witness ==
  \E s \in ScanSlots, t \in ScanSlots :
    scanPc[s] = "skipped" /\ scanPc[t] = "detect" /\ isScanning

\* C4: an invocation of performArbitrageScan that finds no cycle running and
\* consecutiveLosses >= CIRCUIT_BREAKER_THRESHOLD or dailyProfitLoss <
\* -MAX_DAILY_LOSS ends as rejected: the store and the statistics are as
\* before, the flag is down, and the invocation does nothing later but end
C4_TrippedCycleRejected ==
  [][\A s \in ScanSlots :
       /\ ( /\ Invoked(s) /\ ~isScanning
            /\ \/ consecutiveLosses >= CIRCUIT_BREAKER_THRESHOLD
               \/ dailyProfitLoss < 0 - MAX_DAILY_LOSS )
            => /\ scanPc'[s] = "rejected"
               /\ isScanning' = FALSE
               /\ UNCHANGED <<opportunities, opportunityId, stats>>
       /\ scanPc[s] = "rejected" => scanPc'[s] \in {"rejected", "idle"}]_vars

C4_Witness ==
  \E s \in ScanSlots :
    /\ scanPc[s] = "rejected"
    /\ dailyProfitLoss < 0 - MAX_DAILY_LOSS
    /\ ~isScanning
    /\ opportunities = <<>>

\* C5: every call of executeArbitrage that settles as a failure adds one to
\* consecutiveLosses
C5_FailureCountsAsLoss ==
  [][\A p \in ExecSlots :
       Settles(p) /\ ~execResult'[p].success
         => consecutiveLosses' = consecutiveLosses + 1]_vars

\* C6: a call that settles as success zeroes consecutiveLosses and adds its
\* profit to dailyProfitLoss; a call that settles as a failure takes its
\* notional off dailyProfitLoss
C6_RiskStateFollowsResults ==
  [][\A p \in ExecSlots :
       /\ Settles(p) /\ execResult'[p].success
            => /\ consecutiveLosses' = 0
               /\ dailyProfitLoss' = dailyProfitLoss + execResult'[p].profit
       /\ Settles(p) /\ ~execResult'[p].success
            => dailyProfitLoss' = dailyProfitLoss - execSize[p]]_vars

C9_DetectedProfitPositive ==
  \A i \in DOMAIN opportunities :
    opportunities[i].origin # "api" => opportunities[i].profitPercentage > 0

C9_Witness ==
  /\ \E i \in DOMAIN opportunities : opportunities[i].origin = "simple"
  /\ \E i \in DOMAIN opportunities : opportunities[i].origin = "triangular"
  /\ \E i \in DOMAIN opportunities : opportunities[i].origin = "statistical"

\* C10: once a balance query has answered with a balance, the positionSize the
\* call goes on with is <= MAX_POSITION_SIZE and <= that balance
C10_SizeWithinBalance ==
  \A p \in ExecSlots :
    execPc[p] = "legs" /\ execBalance[p] >= 0
      => execSize[p] <= MAX_POSITION_SIZE /\ execSize[p] <= execBalance[p]

IsPrefix(s, t) == Len(s) <= Len(t) /\ SubSeq(t, 1, Len(s)) = s
Listed(seq) == {seq[k] : k \in DOMAIN seq}

\* C11: when a leg of an execution fails, by returning no reference or by
\* raising an error, the execution settles in that step as a failure whose
\* transaction list is the references of the legs before it, in order
C11_FailedLegAborts ==
  [][\A p \in ExecSlots :
       (execPc[p] = "legs" /\ Settles(p) /\ ~execResult'[p].success)
         => execResult'[p].transactionHashes = execTxs[p]]_vars

C15_DeactivateIdempotent ==
  /\ [](\A id \in DOMAIN opportunities :
          LET once == deactivateOpportunity(opportunities, id)
          IN /\ deactivateOpportunity(once, id) = once
             /\ ~opportunities[id].isActive => once = opportunities)
  /\ [][\A p \in ExecSlots :
          (Settles(p) /\ execResult'[p].success /\ ~opportunities[execId[p]].isActive)
            => opportunities' = opportunities]_vars

C15_Witness ==
  \E p \in ExecSlots, q \in ExecSlots :
    /\ p # q /\ execId[p] = execId[q]
    /\ Succeeded(p) /\ Succeeded(q)
    /\ execResult[p].transactionHashes # <<"simulated_short_trade_tx">>

\* the fields of a stored opportunity other than isActive
Created(opp) == [opp EXCEPT !.isActive = TRUE]

\* C14: in every step every stored opportunity stays under its id with the
\* fields it was created with, its isActive goes at most from true to false,
\* and the rows a step adds get the ids from opportunityId on, all greater
\* than every id assigned before
C14_RecordsKeepIdentity ==
  /\ [](opportunityId = Len(opportunities) + 1)
  /\ [][/\ \A i \in DOMAIN opportunities :
            /\ i \in DOMAIN opportunities'
            /\ Created(opportunities'[i]) = Created(opportunities[i])
            /\ opportunities'[i].isActive => opportunities[i].isActive
       /\ opportunityId' >= opportunityId
       /\ DOMAIN opportunities' \ DOMAIN opportunities = opportunityId..(opportunityId' - 1)]_vars

\* a triangle detected in two cycles is stored twice, and a row was executed
C14_Witness ==
  /\ \E i \in DOMAIN opportunities : ~opportunities[i].isActive
  /\ \E i \in DOMAIN opportunities, j \in DOMAIN opportunities :
       /\ i < j
       /\ opportunities[i].origin = "triangular"
       /\ Created(opportunities[i]) = Created(opportunities[j])

\* the rows getOpportunities(minProfit, strategy) is to return
Wanted(minProfit, strategy) ==
  {i \in DOMAIN opportunities :
     /\ opportunities[i].isActive
     /\ (minProfit > 0 => opportunities[i].profitPercentage >= minProfit)
     /\ (strategy # "all" =>
           LowerCase(opportunities[i].strategy) = LowerCase(strategy))}

\* C16: getOpportunities(minProfit, strategy) returns each row that is active,
\* has at least minProfit (when minProfit > 0) and matches the strategy (when
\* it is not 'all') exactly once, no other row and no inactive row, ordered by
\* non-increasing profit percentage
C16_ListingFilteredAndSorted ==
  listed.strategy # "none" =>
    /\ Listed(listed.rows) = Wanted(listed.minProfit, listed.strategy)
    /\ Len(listed.rows) = Cardinality(Listed(listed.rows))
    /\ \A k \in DOMAIN listed.rows : opportunities[listed.rows[k]].isActive
    /\ \A k \in 1..(Len(listed.rows) - 1) :
         opportunities[listed.rows[k]].profitPercentage
           >= opportunities[listed.rows[k + 1]].profitPercentage

\* a listing that left out an inactive row and a row of another strategy and
\* changed the order of the two rows it returned
C16_Witness ==
  /\ listed.strategy = "Simple"
  /\ listed.minProfit = 2 * PCT
  /\ Len(opportunities) = 3
  /\ listed.rows = <<3, 1>>
  /\ ~opportunities[2].isActive

\* the kinds of the legs, in the order they were submitted
Kinds(calls) == [k \in DOMAIN calls |-> calls[k].kind]
\* isCrossNetwork of executeCrossDexArbitrage
CrossNetwork(opp) ==
  /\ opp.strategy = "cross-dex"
  /\ opp.buyNetwork # opp.sellNetwork
\* slot p submits its sell leg in this step
SubmitsSell(p) ==
  /\ execPc[p] = "legs"
  /\ ExecutorPlan(opportunities[execId[p]], execSize[p]).legs[NextLeg(execCalls[p])].kind = "sell"
  /\ (Settles(p) \/ execCalls'[p] # execCalls[p])

\* C17: a cross-network cross-DEX execution submits buy, then the bridge
\* transfer, then sell, and submits the sell leg only when the transfer has
\* been delivered on the destination network
C17_SellAfterBridgeArrival ==
  /\ [](\A p \in ExecSlots :
         (execPc[p] = "legs" /\ CrossNetwork(opportunities[execId[p]]))
           => IsPrefix(Kinds(execCalls[p]), <<"buy", "bridge", "sell">>))
  /\ [][\A p \in ExecSlots :
         (execPc[p] = "legs" /\ CrossNetwork(opportunities[execId[p]]) /\ SubmitsSell(p))
           => execBridge[p] = "arrived"]_vars

\* the lowest ask and the highest bid among the tickers read
MinAsk == CHOOSE a \in {tickers.quote[v].ask : v \in tickers.names} :
            \A w \in tickers.names : a <= tickers.quote[w].ask
MaxBid == CHOOSE b \in {tickers.quote[v].bid : v \in tickers.names} :
            \A w \in tickers.names : b >= tickers.quote[w].bid

\* C18: on two or more tickers detectSimpleArbitrage stores at most one
\* opportunity; it buys at a venue with the lowest ask, sells at a venue with
\* the highest bid and carries (bid - ask) / ask * 100 as its profit; nothing
\* is stored when the two venues are the same or that profit is not positive
C18_SimpleBuysLowSellsHigh ==
  Cardinality(tickers.names) >= 2 =>
    /\ Len(tickers.stored) <= 1
    /\ \A k \in DOMAIN tickers.stored :
         LET opp == tickers.stored[k] IN
           /\ opp.buyExchange \in tickers.names
           /\ opp.sellExchange \in tickers.names
           /\ tickers.quote[opp.buyExchange].ask = MinAsk
           /\ tickers.quote[opp.sellExchange].bid = MaxBid
           /\ opp.buyPrice = MinAsk
           /\ opp.sellPrice = MaxBid
           /\ opp.profitPercentage = ((MaxBid - MinAsk) * 100 * PCT) \div MinAsk
           /\ opp.buyExchange # opp.sellExchange
           /\ opp.profitPercentage > 0
           /\ opportunities[Len(opportunities)] = opp
    /\ ( \/ MaxBid <= MinAsk
         \/ BestBuy(tickers.names, tickers.quote) = BestSell(tickers.names, tickers.quote) )
         => tickers.stored = <<>>

\* three tickers, the lowest ask not at the first venue, and an opportunity stored
C18_Witness ==
  /\ Cardinality(tickers.names) = 3
  /\ Len(tickers.stored) = 1
  /\ tickers.stored[1].buyExchange # TickerVenues[1]
  /\ tickers.quote[TickerVenues[1]].ask > MinAsk

\* an exchange row that is an active DEX
ActiveDex(v) == v \in DOMAIN exchangeActive /\ exchangeActive[v] /\ ExchangeTypeField(v) = "dex"
\* pools a and b are the two pools of their pair, at two active DEX venues, and
\* buying at a to sell at b leaves a positive spread after the two pool fees
SpreadAcross(a, b) ==
  /\ a.pair = b.pair
  /\ a.exchange # b.exchange
  /\ ActiveDex(a.exchange) /\ ActiveDex(b.exchange)
  /\ Cardinality({k \in DOMAIN liquidityPools : liquidityPools[k].pair = a.pair}) = 2
  /\ ImpliedPrice(a) < ImpliedPrice(b)
  /\ ((ImpliedPrice(b) - ImpliedPrice(a)) * 100 * PCT) \div ImpliedPrice(a) - (a.fee + b.fee) > 0
\* slot s completes a scan cycle in this step
CycleCompletes(s) == scanPc[s] = "detect" /\ scanPc'[s] = "idle"

\* C19: a scan cycle that finds two active DEX venues holding the two pools of
\* a pair with a positive spread after fees stores a cross-dex opportunity
\* that buys at the lower-priced pool and sells at the higher-priced one, its
\* risk high when the pools are on different networks and medium otherwise
C19_CrossDexStored ==
  [][\A s \in ScanSlots : CycleCompletes(s) =>
       \A i \in DOMAIN liquidityPools, j \in DOMAIN liquidityPools :
         SpreadAcross(liquidityPools[i], liquidityPools[j]) =>
           \E n \in DOMAIN opportunities' \ DOMAIN opportunities :
             /\ opportunities'[n].strategy = "cross-dex"
             /\ opportunities'[n].buyExchange = liquidityPools[i].exchange
             /\ opportunities'[n].sellExchange = liquidityPools[j].exchange
             /\ opportunities'[n].risk =
                  (IF liquidityPools[i].network # liquidityPools[j].network
                     THEN "high" ELSE "medium")]_vars

\* the bridge record getCrossChainBridges(source, destination) lists first, if any
MatchingBridges(source, destination) ==
  {k \in DOMAIN crossChainBridges :
     /\ crossChainBridges[k].sourceNetwork = source
     /\ crossChainBridges[k].destinationNetwork = destination}
\* the rows stored in this step by detectCrossDexArbitrage
StoredCrossDex ==
  {n \in DOMAIN opportunities' \ DOMAIN opportunities : opportunities'[n].origin = "cross-dex"}

PoolsOf(exchange, network, pair) ==
  {k \in DOMAIN liquidityPools : /\ liquidityPools[k].exchange = exchange
                                 /\ liquidityPools[k].network = network
                                 /\ liquidityPools[k].pair = pair}

\* C21: the position size a cross-dex execution goes on with is at most half
\* of the USD liquidity of the pool it buys from and of the pool it sells to,
\* also when a pool holds less than MIN_POSITION_SIZE
C21_SizeWithinLiquidity ==
  \A p \in ExecSlots :
    (execPc[p] = "legs" /\ opportunities[execId[p]].strategy = "cross-dex") =>
      LET opp == opportunities[execId[p]] IN
      \A k \in PoolsOf(opp.buyExchange, opp.buyNetwork, opp.assetPair)
             \cup PoolsOf(opp.sellExchange, opp.sellNetwork, opp.assetPair) :
        2 * execSize[p] <= liquidityPools[k].liquidityUSD

\* riskFactor * min(balance, max(MIN_POSITION_SIZE, min(volume, MAX_POSITION_SIZE)))
ReferenceSize(opp, balance) ==
  (RiskFactor(opp.strategy)
     * Min(balance, Max(MIN_POSITION_SIZE, Min(opp.volume, MAX_POSITION_SIZE)))) \div 10
\* slot p leaves the position sizer with a size in this step
Sized(p) == execPc[p] = "sizing" /\ execPc'[p] = "legs"

\* C22: the size calculatePositionSize returns is the reference size for some
\* balance, and when the balance query gave no balance (no value, or an
\* error) that balance is a default below MAX_POSITION_SIZE
C22_SizerMatchesReference ==
  [][\A p \in ExecSlots : Sized(p) =>
       \E balance \in 0..MAX_POSITION_SIZE :
         /\ execSize'[p] = ReferenceSize(opportunities[execId[p]], balance)
         /\ execBalance'[p] < 0 => balance < MAX_POSITION_SIZE]_vars

\* the leg slot p submits in this step, and that it submits one
SubmittedLeg(p) ==
  ExecutorPlan(opportunities[execId[p]], execSize[p]).legs[NextLeg(execCalls[p])]
Submits(p) == execPc[p] = "legs" /\ (Settles(p) \/ execCalls'[p] # execCalls[p])
\* the leg is sized in the quote currency (a DEX buy, a first hop, a loan)
\* rather than in the asset bought
QuoteSized(leg, k) ==
  \/ leg.kind = "buy" /\ leg.adapter = "dex"
  \/ leg.kind = "hop" /\ k = 1
  \/ leg.kind = "loan"

\* C23: a leg sized in the quote currency commits the notional the position
\* sizer returned, a leg sized in the asset commits notional / buyPrice; the
\* amount asked of the flash-loan adapter is neither above the notional nor
\* above MAX_POSITION_SIZE
C23_LegsCommitNotional ==
  [][\A p \in ExecSlots : Submits(p) =>
       LET leg == SubmittedLeg(p)
           opp == opportunities[execId[p]]
       IN /\ QuoteSized(leg, NextLeg(execCalls[p])) => leg.amount = execSize[p]
          /\ leg.kind \in {"sell", "bridge"} \/ (leg.kind = "buy" /\ leg.adapter = "cex")
               => leg.amount = AssetAmount(execSize[p], opp.buyPrice)
          /\ leg.kind = "loan" => leg.amount <= MAX_POSITION_SIZE]_vars

\* the venues whose ticker query failed in the call under study
FailedVenues == {v \in DOMAIN tickers.feed : tickers.feed[v] # "ticker"}

\* C24: a venue whose ticker query fails is skipped: no opportunity stored by
\* the call names it as buy or sell venue, while every other venue of the pair
\* is still evaluated
C24_FailedVenueSkipped ==
  /\ \A v \in FailedVenues : \A k \in DOMAIN tickers.stored :
       tickers.stored[k].buyExchange # v /\ tickers.stored[k].sellExchange # v
  /\ \A v \in DOMAIN tickers.feed \ FailedVenues : v \in tickers.names

\* the orders a started executor has been handed for slot p
PlannedLegs(p) == ExecutorPlan(opportunities[execId[p]], execSize[p]).legs

\* C25: an execution of a triangular opportunity of the detector that has its
\* position size submits three orders, one per pair of the route, the hop after
\* hop i taking 0.98 times its input, and its success reports final amount
\* minus initial notional
C25_TriangularThreeOrders ==
  [][\A p \in ExecSlots :
       (execPc[p] = "sizing" /\ execPc'[p] # "sizing"
          /\ opportunities[execId[p]].origin = "triangular"
          /\ execResult'[p].error # "Insufficient balance or position size too small") =>
         /\ execPc'[p] = "legs"
         /\ Len(PlannedLegs(p)') = 3
         /\ \A i \in 1..3 : PlannedLegs(p)'[i].amount = Decayed(execSize'[p], i - 1)]_vars

\* opp is a simple opportunity of the detector between two centralized venues
SimpleBetweenCex(opp) ==
  /\ opp.origin = "simple"
  /\ ExchangeTypeField(opp.buyExchange) = "cex"
  /\ ExchangeTypeField(opp.sellExchange) = "cex"

\* C26: an execution of a simple opportunity of the detector between two
\* centralized venues submits a market buy through the CEX order adapter on the
\* buy venue, then a market sell through the CEX order adapter on the sell
\* venue, both for notional / buyPrice, and its success reports
\* (sellPrice - buyPrice) * assetAmount
C26_SimpleThroughCexAdapter ==
  [][\A p \in ExecSlots :
       (Submits(p) /\ SimpleBetweenCex(opportunities[execId[p]])) =>
         LET opp == opportunities[execId[p]]
             k == NextLeg(execCalls[p])
             leg == SubmittedLeg(p)
         IN /\ leg.adapter = "cex"
            /\ leg.amount = AssetAmount(execSize[p], opp.buyPrice)
            /\ leg.kind = (IF k = 1 THEN "buy" ELSE "sell")
            /\ leg.venue = (IF k = 1 THEN opp.buyExchange ELSE opp.sellExchange)
            /\ (execPc'[p] = "done" /\ execResult'[p].success) =>
                 /\ k = 2
                 /\ execResult'[p].profit = RealizedProfit(opp, execSize[p])]_vars

\* C27: a cross-network cross-DEX execution that settles as success lists three
\* references, the bridge transfer between the buy and the sell; an execution
\* whose opportunity has no bridge submits no sell leg
C27_BridgeOrNoSell ==
  /\ [](\A p \in ExecSlots :
         (Succeeded(p) /\ CrossNetwork(opportunities[execId[p]]))
           => execResult[p].transactionHashes = <<"buy", "bridge", "sell">>)
  /\ [][\A p \in ExecSlots :
         (execPc[p] = "legs" /\ CrossNetwork(opportunities[execId[p]])
            /\ ~Truthy(opportunities[execId[p]].crossChainBridge))
           => ~SubmitsSell(p)]_vars

\* every started execution reaches a terminal result
ExecutionsSettle == \A p \in ExecSlots : (execPc[p] \in {"sizing", "legs"}) ~> (execPc[p] = "done")

\* C28: every started execution reaches a terminal result, and an execution
\* whose bridge transfer has not been delivered when it settles settles as a
\* failure
C28_SettlesAndBridgeTimesOut ==
  /\ ExecutionsSettle
  /\ [][\A p \in ExecSlots :
         (Settles(p) /\ execBridge[p] = "sent") => ~execResult'[p].success]_vars

\* one step above a tier, capped at high
TierAbove(risk) == IF risk = "low" THEN "medium" ELSE "high"

\* C29: a stored simple opportunity has tier high when its profit percentage
\* is above 5, the tier one step above the pair's table tier when it is above
\* 3 and at most 5, and the pair's table tier (medium for a pair not in the
\* table) when it is at most 3
C29_RiskTierByProfit ==
  \A k \in DOMAIN opportunities :
    LET opp == opportunities[k] IN
    opp.origin = "simple" =>
      opp.risk = (IF opp.profitPercentage > 5 * PCT THEN "high"
                  ELSE IF opp.profitPercentage > 3 * PCT
                    THEN TierAbove(PairRiskLevel(opp.assetPair))
                    ELSE PairRiskLevel(opp.assetPair))

\* the pools of a pair, by position in the order storage lists them, and those
\* of them with the highest implied price
PairPools(pair) == {k \in DOMAIN liquidityPools : liquidityPools[k].pair = pair}
HighestPools(pair) ==
  {k \in PairPools(pair) : \A j \in PairPools(pair) :
     ImpliedPrice(liquidityPools[k]) >= ImpliedPrice(liquidityPools[j])}
FirstOf(positions) == CHOOSE k \in positions : \A j \in positions : k <= j
LastOf(positions) == CHOOSE k \in positions : \A j \in positions : k >= j
\* opp sells at the pool in position k, and buys at another pool of the pair
TradesInto(opp, k) ==
  /\ liquidityPools[k].exchange = opp.sellExchange
  /\ liquidityPools[k].network = opp.sellNetwork
  /\ \E j \in PairPools(opp.assetPair) \ {k} :
       /\ liquidityPools[j].exchange = opp.buyExchange
       /\ liquidityPools[j].network = opp.buyNetwork
       /\ ImpliedPrice(liquidityPools[j]) = opp.buyPrice
\* the venues that tie on the lowest ask and on the highest bid
LowestAsks == {v \in tickers.names : tickers.quote[v].ask = MinAsk}
HighestBids == {v \in tickers.names : tickers.quote[v].bid = MaxBid}
\* a stored simple opportunity buys at the first listed of the venues with the
\* lowest ask and sells at the first listed of those with the highest bid
FirstListedTickers ==
  \A k \in DOMAIN tickers.stored :
    /\ tickers.stored[k].buyExchange \in LowestAsks
    /\ tickers.stored[k].sellExchange \in HighestBids
    /\ \A w \in LowestAsks : VenueIndex(tickers.stored[k].buyExchange) <= VenueIndex(w)
    /\ \A w \in HighestBids : VenueIndex(tickers.stored[k].sellExchange) <= VenueIndex(w)

LowestPools(pair) ==
  {k \in PairPools(pair) : \A j \in PairPools(pair) :
     ImpliedPrice(liquidityPools[k]) <= ImpliedPrice(liquidityPools[j])}

C32_StatisticalOneOrder ==
  [][\A p \in ExecSlots :
       (Settles(p) /\ execResult'[p].success
          /\ opportunities[execId[p]].strategy = "statistical") =>
         /\ execPc[p] = "legs"
         /\ execCalls[p] = <<>>
         /\ SubmittedLeg(p).kind =
              (IF opportunities[execId[p]].route.parts[1] = "Long" THEN "buy" ELSE "sell")
         /\ execResult'[p].transactionHashes = <<SubmittedLeg(p).kind>>]_vars

\* the place of a detector in the cycle
DetectorRank(origin) ==
  CASE origin = "simple" -> 1
    [] origin = "triangular" -> 2
    [] origin = "cross-dex" -> 3
    [] origin = "flash-loan" -> 4
    [] origin = "statistical" -> 5
    [] OTHER -> 0
\* the rows this step adds to the store
AddedRows == DOMAIN opportunities' \ DOMAIN opportunities
\* a cycle past the risk gate goes from its steps in order: the refresh of gas
\* prices, connections and statuses writes nothing to the opportunities or the
\* statistics; the detectors store in the order simple, triangular, cross-dex,
\* flash-loan, statistical; the statistics are those of the store after the
\* last detector; no other step stores a detector's row or writes statistics
CycleInOrder(s) ==
  /\ scanPc[s] = "connect" => scanPc'[s] \in {"connect", "detect"}
  /\ (scanPc[s] = "connect" /\ scanPc'[s] = "detect") => UNCHANGED <<opportunities, stats>>
  /\ scanPc[s] = "detect" => scanPc'[s] \in {"detect", "idle"}
  /\ CycleCompletes(s) =>
       /\ \A m \in AddedRows, n \in AddedRows :
            m < n => DetectorRank(opportunities'[m].origin)
                       <= DetectorRank(opportunities'[n].origin)
       /\ \E n \in AddedRows : opportunities'[n].origin = "triangular"
       /\ stats'.totalOpportunities = Cardinality(ActiveIds(opportunities'))
       /\ stats'.triangularArbitrageCount
            = Cardinality({i \in ActiveIds(opportunities') :
                            opportunities'[i].strategy = "triangular"})
OnlyCyclesDetect ==
  /\ (\E n \in AddedRows : opportunities'[n].origin # "api")
       => \E s \in ScanSlots : CycleCompletes(s)
  /\ stats' # stats => \E s \in ScanSlots : CycleCompletes(s)

C34_CountsPartitionActive ==
  [][\A s \in ScanSlots : CycleCompletes(s) =>
       /\ stats'.totalOpportunities = Cardinality(ActiveIds(opportunities'))
       /\ stats'.simpleArbitrageCount + stats'.triangularArbitrageCount
            + stats'.crossDexArbitrageCount + stats'.flashLoanArbitrageCount
            = stats'.totalOpportunities]_vars

\* C35: a failure result carries a non-empty error message and, when a leg
\* failed, names that leg
C35_FailureNamesLeg ==
  [][\A p \in ExecSlots :
       (Settles(p) /\ ~execResult'[p].success) =>
         /\ execResult'[p].error # ""
         /\ execPc[p] = "legs" => execResult'[p].legNamed = NextLeg(execCalls[p])]_vars

\* a cycle of slot s ends in this step: the breaker turns it away, or it leaves
\* its steps by the early return, by a caught error or by completing
CycleEnds(s) ==
  \/ Invoked(s) /\ scanPc'[s] = "rejected"
  \/ scanPc[s] \in CyclePcs /\ scanPc'[s] \notin CyclePcs

\* C36: whenever a scan cycle ends (circuit-breaker skip, fewer than two
\* active exchanges, an error raised by a step, normal completion) the running
\* flag is false, and an invocation is skipped only while a cycle is in progress
C36_FlagReleasedOnEveryExit ==
  [][\A s \in ScanSlots :
       /\ CycleEnds(s) => ~isScanning'
       /\ (Invoked(s) /\ scanPc'[s] = "skipped")
            => \E t \in ScanSlots : scanPc[t] \in CyclePcs]_vars

\* a cycle has ended on a raised error after its detectors stored something,
\* and the flag is down
C36_Witness ==
  \E s \in ScanSlots :
    /\ scanPc[s] = "raised"
    /\ opportunities # <<>>
    /\ ~isScanning

\* C37: after any sequence of startArbitrageScanner and stopArbitrageScanner
\* at most one timer is armed; while the scanner is stopped performArbitrageScan
\* is invoked only by the next startArbitrageScanner; stopArbitrageScanner
\* leaves a cycle in progress as it is, and that cycle runs to its end
C37_OneTimerAndStopHolds ==
  /\ [](armedTimers <= 1)
  /\ [][\A s \in ScanSlots : (Invoked(s) /\ ~scannerInterval) => scannerInterval']_vars
  /\ [][(scannerInterval /\ ~scannerInterval')
         => (scanPc' = scanPc /\ isScanning' = isScanning)]_vars
  /\ \A s \in ScanSlots :
       (scanPc[s] \in CyclePcs /\ ~scannerInterval) ~> (scanPc[s] = "idle")

\* the scanner was stopped while a cycle is at its detectors
C37_Witness ==
  /\ ~scannerInterval
  /\ armedTimers = 0
  /\ isScanning
  /\ \E s \in ScanSlots : scanPc[s] = "detect"

\* C38: executeArbitrage on an id that is not in the store returns at once a
\* failure with strategy 'unknown' and the not-found error, with no balance
\* query and no order issued and with the store as it was
C38_MissingIdFails ==
  /\ [](\A p \in ExecSlots :
         (execPc[p] # "idle" /\ execId[p] \notin DOMAIN opportunities)
           => /\ execPc[p] = "done"
              /\ execCalls[p] = <<>>
              /\ ~execResult[p].success
              /\ execResult[p].strategy = "unknown"
              /\ execResult[p].error = "not found"
              /\ ~execResult[p].txsPresent)
  /\ [][\A p \in ExecSlots :
          (execPc[p] = "idle" /\ execPc'[p] # "idle"
             /\ execId'[p] \notin DOMAIN opportunities)
            => storeVars' = storeVars]_vars

\* a call on an id one past the last row of a store that holds rows has returned
C38_Witness ==
  \E p \in ExecSlots :
    /\ execPc[p] = "done"
    /\ opportunities # <<>>
    /\ execId[p] = Len(opportunities) + 1
    /\ execResult[p].error = "not found"

\* the bridge the detector resolves for the networks of an opportunity, from
\* the bridge records of the store
ResolvedBridge(opp) == FirstBridge(crossChainBridges, opp.buyNetwork, opp.sellNetwork)

\* C39: an execution whose opportunity names the bridge that the detector
\* resolves from the store for its two networks does not fail at its bridge
\* leg with 'Bridge not supported'
C39_ResolvedBridgeRecognised ==
  [][\A p \in ExecSlots :
       (Settles(p) /\ execPc[p] = "legs"
          /\ Truthy(opportunities[execId[p]].crossChainBridge)
          /\ opportunities[execId[p]].crossChainBridge
               = ResolvedBridge(opportunities[execId[p]]))
         => execResult'[p].error # "Bridge not supported"]_vars

=============================================================================
